---- MODULE Spec2Model ----
(***************************************************************************)
(* Model of the Personalized Schedule Assembler                            *)
(* (src/server/services/ScheduleGeneratorService.js) and of the Grid Block *)
(* Extractor (src/server/services/ExcelParserServiceFinal.js).             *)
(*                                                                         *)
(* JavaScript values are tagged records, so that typeof, truthiness and    *)
(* === can be computed as the interpreter computes them.  Strings the code *)
(* parses, pads or sorts (course codes, group codes, user input) are       *)
(* sequences of one-character strings; strings the code only compares or   *)
(* looks up (day names, start times) are atomic.                           *)
(***************************************************************************)
EXTENDS Integers, Sequences, FiniteSets, TLC

VARIABLES
  courseGroups,     \* the catalog handed to the call
  userRequest,      \* the user request handed to the call
  pc,               \* "request" before the call, "done" after it
  courseSelection,  \* the local courseSelection of the call (line 49)
  spanValidation,   \* the local spanValidation of the call (line 53)
  result,           \* how the call settled and the value it returned
  excelFile,        \* the grid of the file of each /api/excel/parse request
  excelPc,          \* where the handler of each parse request is
  parseResult,      \* the value parseExcelFile resolved with, per request
  consoleLog,       \* the blocks the scan logged (line 143), per request
  processedBlocks,  \* finalParserService.processedBlocks
  courseSpanTracker \* finalParserService.courseSpanTracker

generatorVars ==
  <<courseGroups, userRequest, pc, courseSelection, spanValidation, result>>

parserVars ==
  <<excelFile, excelPc, parseResult, consoleLog, processedBlocks, courseSpanTracker>>

vars == <<generatorVars, parserVars>>

-----------------------------------------------------------------------------
(* JavaScript values *)

Undefined == [type |-> "undefined"]

Null == [type |-> "null"]

Str(cs) == [type |-> "string", chars |-> cs]

Num(k) == [type |-> "number", n |-> k]

Obj(code, group) == [type |-> "object", code |-> code, group |-> group]

Arr(items) == [type |-> "array", items |-> items]

Request(desired) == [type |-> "request", desired_courses |-> desired]

TypeOf(v) == IF v.type = "null" THEN "object" ELSE v.type

Truthy(v) ==
  CASE v.type = "string" -> Len(v.chars) > 0
    [] v.type = "number" -> v.n # 0
    [] v.type \in {"undefined", "null"} -> FALSE
    [] OTHER -> TRUE

\* a || b
OrElse(a, b) == IF Truthy(a) THEN a ELSE b

-----------------------------------------------------------------------------
(* Characters and strings *)

UpperChars == {"A", "B", "C", "D", "E", "S"}

DigitChars == {"0", "1", "2", "3", "4", "5", "6", "7", "8", "9"}

SpaceChars == {" "}

\* The characters of the model in UTF-16 code unit order.
CodeUnitOrder ==
  <<" ", ",", "0", "1", "2", "3", "4", "5", "6", "7", "8", "9",
    "A", "B", "C", "D", "E", "S">>

CodeUnit(c) == CHOOSE i \in 1..Len(CodeUnitOrder) : CodeUnitOrder[i] = c

RECURSIVE Run(_, _, _)
\* the number of consecutive characters of class from position i on
Run(cs, i, class) ==
  IF i <= Len(cs) /\ cs[i] \in class THEN 1 + Run(cs, i + 1, class) ELSE 0

RECURSIVE RunBack(_, _, _)
RunBack(cs, i, class) ==
  IF i >= 1 /\ cs[i] \in class THEN 1 + RunBack(cs, i - 1, class) ELSE 0

TrimFrom(cs, lead) ==
  IF lead = Len(cs) THEN <<>>
  ELSE SubSeq(cs, lead + 1, Len(cs) - RunBack(cs, Len(cs), SpaceChars))

\* String.prototype.trim
Trim(cs) == TrimFrom(cs, Run(cs, 1, SpaceChars))

PadStartBug(cs) == cs

\* String.prototype.padStart(2, '0')
PadStart(cs) ==
  IF Len(cs) >= 2 THEN cs
  ELSE IF Len(cs) = 1 THEN <<"0">> \o cs
  ELSE <<"0", "0">>

RECURSIVE LexLess(_, _)
\* a < b as the default Array.prototype.sort compares strings
LexLess(a, b) ==
  IF Len(b) = 0 THEN FALSE
  ELSE IF Len(a) = 0 THEN TRUE
  ELSE IF Head(a) # Head(b) THEN CodeUnit(Head(a)) < CodeUnit(Head(b))
  ELSE LexLess(Tail(a), Tail(b))

RECURSIVE Insert(_, _)
Insert(sorted, x) ==
  IF sorted = <<>> THEN <<x>>
  ELSE IF LexLess(x.chars, Head(sorted).chars) THEN <<x>> \o sorted
  ELSE <<Head(sorted)>> \o Insert(Tail(sorted), x)

RECURSIVE SortStrings(_)
\* Array.prototype.sort() on an array of strings
SortStrings(a) ==
  IF a = <<>> THEN <<>>
  ELSE Insert(SortStrings(SubSeq(a, 1, Len(a) - 1)), a[Len(a)])

Includes(a, x) == \E i \in 1..Len(a) : a[i] = x

RECURSIVE Join(_, _)
\* Array.prototype.join(sep) on an array of strings
Join(a, sep) ==
  IF a = <<>> THEN <<>>
  ELSE IF Len(a) = 1 THEN a[1].chars
  ELSE a[1].chars \o sep \o Join(Tail(a), sep)

RECURSIVE Concat(_)
\* the concatenation of a sequence of sequences
Concat(ss) == IF ss = <<>> THEN <<>> ELSE Head(ss) \o Concat(Tail(ss))

RECURSIVE SumSeq(_)
SumSeq(ns) == IF ns = <<>> THEN 0 ELSE Head(ns) + SumSeq(Tail(ns))

-----------------------------------------------------------------------------
(* Fixed tables of the service *)

timeSlots == 8

days == <<"Sunday", "Monday", "Tuesday", "Wednesday", "Thursday", "Friday", "Saturday">>

EEC101 == <<"E", "E", "C", " ", "1", "0", "1">>

EEC113 == <<"E", "E", "C", " ", "1", "1", "3">>

EEC121 == <<"E", "E", "C", " ", "1", "2", "1">>

EEC125 == <<"E", "E", "C", " ", "1", "2", "5">>

EEC142 == <<"E", "E", "C", " ", "1", "4", "2">>

EEC212 == <<"E", "E", "C", " ", "2", "1", "2">>

EEC284 == <<"E", "E", "C", " ", "2", "8", "4">>

\* this.trueSpanValues[course_code]; undefined for a code without an entry
trueSpanValues(code) ==
  IF code.type # "string" THEN Undefined
  ELSE CASE code.chars = EEC101 -> Num(3)
         [] code.chars = EEC113 -> Num(3)
         [] code.chars = EEC121 -> Num(5)
         [] code.chars = EEC125 -> Num(5)
         [] code.chars = EEC142 -> Num(6)
         [] code.chars = EEC212 -> Num(5)
         [] code.chars = EEC284 -> Num(4)
         [] OTHER -> Undefined

findTimeSlotIndexBug(startTime) ==
  CASE startTime = "9.00" -> 0
    [] startTime = "9.45" -> 1
    [] startTime = "10.40" -> 2
    [] startTime = "11.25" -> 3
    [] startTime = "12.20" -> 4
    [] startTime = "1.05" -> 5
    [] startTime = "2.00" -> 6
    [] startTime = "2.45" -> 7
    [] OTHER -> 0

\* findTimeSlotIndex: the index of a start time, -1 when it is no key
findTimeSlotIndex(startTime) ==
  CASE startTime = "9.00" -> 0
    [] startTime = "9.45" -> 1
    [] startTime = "10.40" -> 2
    [] startTime = "11.25" -> 3
    [] startTime = "12.20" -> 4
    [] startTime = "1.05" -> 5
    [] startTime = "2.00" -> 6
    [] startTime = "2.45" -> 7
    [] OTHER -> -1

\* this.days.indexOf(day), 0-based, -1 when absent
dayIndexOf(day) ==
  IF \E i \in 1..Len(days) : days[i] = day
  THEN (CHOOSE i \in 1..Len(days) : days[i] = day) - 1
  ELSE -1

-----------------------------------------------------------------------------
(* parseUserCourseSelection and selectSmartGroup *)

NoMatch == [matched |-> FALSE, dept |-> <<>>, courseNum |-> <<>>, group |-> Undefined]

\* The match of /^([A-Z]{2,4})\s*(\d{3})(\d{2})?$/ on cs, given the lengths
\* L, W and D of the leading runs of letters, white space and digits.  The
\* three character classes are disjoint, so these lengths decide the match.
MatchOfRuns(cs, L, W, D) ==
  IF L \in 2..4 /\ D \in {3, 5} /\ L + W + D = Len(cs)
  THEN [matched |-> TRUE,
        dept |-> SubSeq(cs, 1, L),
        courseNum |-> SubSeq(cs, L + W + 1, L + W + 3),
        group |-> IF D = 5 THEN Str(SubSeq(cs, L + W + 4, L + W + 5))
                  ELSE Undefined]
  ELSE NoMatch

MatchAfterSpaces(cs, L, W) == MatchOfRuns(cs, L, W, Run(cs, L + W + 1, DigitChars))

MatchAfterLetters(cs, L) == MatchAfterSpaces(cs, L, Run(cs, L + 1, SpaceChars))

\* courseInput.match(/^([A-Z]{2,4})\s*(\d{3})(\d{2})?$/)
SelectionMatch(cs) == MatchAfterLetters(cs, Run(cs, 1, UpperChars))

G01 == Str(<<"0", "1">>)

\* courseGroups.filter(g => g.course_code === courseCode).map(g => g.group_code)
\*   .filter(g => g)
GroupCodesOf(forCourse) ==
  SelectSeq([i \in 1..Len(forCourse) |-> forCourse[i].group_code], Truthy)

availableGroupsOf(courseCode, catalog) ==
  LET sameCourse(g) == g.course_code = courseCode
  IN  GroupCodesOf(SelectSeq(catalog, sameCourse))

\* The choice among the available groups (lines 156-169).
preferredGroup(availableGroups) ==
  IF Len(availableGroups) = 0 THEN G01
  ELSE IF Includes(availableGroups, G01) THEN G01
  ELSE availableGroups[1]

selectSmartGroupBug(courseCode, catalog) ==
  preferredGroup(availableGroupsOf(courseCode, catalog))

\* selectSmartGroup(courseCode, courseGroups)
selectSmartGroup(courseCode, catalog) ==
  preferredGroup(SortStrings(availableGroupsOf(courseCode, catalog)))

NoEntry == [course_code |-> Undefined, group_number |-> Undefined,
            original_input |-> Undefined]

\* courseInput can be read as an object with properties (null.code raises).
Readable(courseInput) ==
  TypeOf(courseInput) = "object" /\ courseInput.type # "null"

\* The value of courseCode after the branches of lines 111-126; m is the
\* match of line 113.
courseCodeOf(courseInput, m) ==
  IF TypeOf(courseInput) = "string"
  THEN IF m.matched THEN Str(m.dept \o <<" ">> \o m.courseNum)
       ELSE Str(Trim(courseInput.chars))
  ELSE IF Readable(courseInput) THEN courseInput.code
  ELSE Undefined

\* The value of groupNumber after the branches of lines 111-126; smart is the
\* value of this.selectSmartGroup(courseCode, courseGroups).
groupNumberOf(courseInput, m, smart) ==
  IF TypeOf(courseInput) = "string" THEN OrElse(m.group, smart)
  ELSE IF Readable(courseInput) THEN OrElse(courseInput.group, smart)
  ELSE Undefined

\* Lines 128-134: threw (padStart is not a function unless groupNumber is a
\* string, null.code raised before), push (an entry is appended) and the entry.
entryOf(courseInput, courseCode, groupNumber) ==
  IF courseInput.type = "null"
  THEN [threw |-> TRUE, push |-> FALSE, entry |-> NoEntry]
  ELSE IF ~(Truthy(courseCode) /\ Truthy(groupNumber))
  THEN [threw |-> FALSE, push |-> FALSE, entry |-> NoEntry]
  ELSE IF groupNumber.type # "string"
  THEN [threw |-> TRUE, push |-> FALSE, entry |-> NoEntry]
  ELSE [threw |-> FALSE, push |-> TRUE,
        entry |-> [course_code |-> courseCode,
                   group_number |-> Str(PadStart(groupNumber.chars)),
                   original_input |-> courseInput]]

parseWithCode(courseInput, m, courseCode, catalog) ==
  entryOf(courseInput, courseCode,
          groupNumberOf(courseInput, m, selectSmartGroup(courseCode, catalog)))

parseWithMatch(courseInput, m, catalog) ==
  parseWithCode(courseInput, m, courseCodeOf(courseInput, m), catalog)

\* One iteration of the loop of parseUserCourseSelection.
parseOne(courseInput, catalog) ==
  parseWithMatch(courseInput,
                 IF TypeOf(courseInput) = "string"
                 THEN SelectionMatch(courseInput.chars) ELSE NoMatch,
                 catalog)

\* The selection after one more iteration: before is the outcome of the
\* iterations before it, one the outcome of this one.
afterItem(before, one) ==
  IF before.threw THEN before
  ELSE IF one.threw THEN [threw |-> TRUE, value |-> <<>>]
  ELSE IF one.push THEN [threw |-> FALSE, value |-> Append(before.value, one.entry)]
  ELSE before

RECURSIVE parseItems(_, _)
parseItems(items, catalog) ==
  IF items = <<>> THEN [threw |-> FALSE, value |-> <<>>]
  ELSE afterItem(parseItems(SubSeq(items, 1, Len(items) - 1), catalog),
                 parseOne(items[Len(items)], catalog))

\* parseUserCourseSelection(userRequest, courseGroups)
parseUserCourseSelection(request, catalog) ==
  IF request.type \in {"null", "undefined"}
  THEN [threw |-> TRUE, value |-> <<>>]
  ELSE parseItems(OrElse(request.desired_courses, Arr(<<>>)).items, catalog)

-----------------------------------------------------------------------------
(* Span validation *)

\* matchingSessions.length > 1 ? matchingSessions.sort() : []
sortedIfShared(matchingSessions) ==
  IF Len(matchingSessions) > 1 THEN SortStrings(matchingSessions) ELSE <<>>

\* findSharedGroups(session, courseGroups): the group codes of the groups of
\* session.course_code that have a session at the same day, start, end and
\* type, sorted, when there is more than one.
findSharedGroups(session, catalog) ==
  LET same(gs) == /\ gs.day_of_week = session.day_of_week
                  /\ gs.start_time = session.start_time
                  /\ gs.end_time = session.end_time
                  /\ gs.session_type = session.session_type
      ofGroup(g) ==
        IF g.course_code = session.course_code
        THEN [k \in 1..Len(SelectSeq(g.sessions, same)) |-> g.group_code]
        ELSE <<>>
  IN  sortedIfShared(Concat([i \in 1..Len(catalog) |-> ofGroup(catalog[i])]))

\* calculateGroupSpans(selectedGroup, courseGroups)
calculateGroupSpans(selectedGroup, catalog) ==
  SumSeq([i \in 1..Len(selectedGroup.sessions) |->
            IF Includes(findSharedGroups(selectedGroup.sessions[i], catalog),
                        selectedGroup.group_code)
            THEN selectedGroup.sessions[i].span
            ELSE selectedGroup.sessions[i].span])

CourseNotFound(course_code) ==
  <<"Course ", course_code, " not found in Excel data">>

GroupNotFoundBug(group_number, course_code) ==
  <<"Course ", course_code, " not found in Excel data">>

GroupNotFound(group_number, course_code) ==
  <<"Group ", group_number, " not found for course ", course_code>>

SpanWarning(course_code, group_number, expected, found) ==
  <<"Course ", course_code, " group ", group_number, ": expected ", expected,
    " spans, found ", found, " spans">>

warnOnMismatchBug(validation, course_code, group_number, expectedSpans, totalSpans) ==
  IF Truthy(expectedSpans) /\ totalSpans # expectedSpans.n
  THEN [validation EXCEPT
          !.isValid = FALSE,
          !.errors = Append(@, SpanWarning(course_code, group_number,
                                           expectedSpans.n, totalSpans))]
  ELSE validation

\* if (expectedSpans && totalSpans !== expectedSpans) warnings.push(...)
warnOnMismatch(validation, course_code, group_number, expectedSpans, totalSpans) ==
  IF Truthy(expectedSpans) /\ totalSpans # expectedSpans.n
  THEN [validation EXCEPT
          !.warnings = Append(@, SpanWarning(course_code, group_number,
                                             expectedSpans.n, totalSpans))]
  ELSE validation

EmptyValidation ==
  [isValid |-> TRUE, errors |-> <<>>, warnings |-> <<>>,
   course_span_summary |-> <<>>]

\* Lines 208-221: the warning and the summary entry of a found group.
summarise(validation, selection, totalSpans, expectedSpans) ==
  [warnOnMismatch(validation, selection.course_code, selection.group_number,
                  expectedSpans, totalSpans) EXCEPT
     !.course_span_summary =
        Append(@, [course_code |-> selection.course_code,
                   group_number |-> selection.group_number,
                   actual_spans |-> totalSpans,
                   expected_spans |-> expectedSpans,
                   is_valid |-> ~Truthy(expectedSpans)
                                \/ totalSpans = expectedSpans.n])]

\* Lines 197-221; found holds the groups of the course with the group code.
validateGroup(validation, selection, found, catalog) ==
  IF Len(found) = 0
  THEN [validation EXCEPT
          !.isValid = FALSE,
          !.errors = Append(@, GroupNotFound(selection.group_number,
                                             selection.course_code))]
  ELSE summarise(validation, selection, calculateGroupSpans(found[1], catalog),
                 trueSpanValues(selection.course_code))

\* Lines 190-221; courseGroupsForCode holds the groups of the course.
validateCourse(validation, selection, courseGroupsForCode, catalog) ==
  LET sameGroup(g) == g.group_code = selection.group_number
  IN  IF Len(courseGroupsForCode) = 0
      THEN [validation EXCEPT
              !.isValid = FALSE,
              !.errors = Append(@, CourseNotFound(selection.course_code))]
      ELSE validateGroup(validation, selection,
                         SelectSeq(courseGroupsForCode, sameGroup), catalog)

\* The body of the loop of validateCourseSpans for one selection.
validateOne(validation, selection, catalog) ==
  LET sameCourse(g) == g.course_code = selection.course_code
  IN  validateCourse(validation, selection, SelectSeq(catalog, sameCourse), catalog)

RECURSIVE validateCourseSpansBug(_, _)
validateCourseSpansBug(selections, catalog) ==
  IF selections = <<>> THEN EmptyValidation
  ELSE LET before ==
             validateCourseSpansBug(SubSeq(selections, 1, Len(selections) - 1), catalog)
       IN  IF ~before.isValid THEN before
           ELSE validateOne(before, selections[Len(selections)], catalog)

RECURSIVE validateCourseSpans(_, _)
\* validateCourseSpans(courseSelection, courseGroups)
validateCourseSpans(selections, catalog) ==
  IF selections = <<>> THEN EmptyValidation
  ELSE validateOne(
         validateCourseSpans(SubSeq(selections, 1, Len(selections) - 1), catalog),
         selections[Len(selections)], catalog)

-----------------------------------------------------------------------------
(* The weekly table *)

timeSlotMap ==
  <<"9.00 - 9.45", "9.45 - 10.30", "10.40 - 11.25", "11.25 - 12.10",
    "12.20 - 1.05", "1.05 - 1.50", "2.00 - 2.45", "2.45 - 3.30">>

SlotIndexes == 0..(timeSlots - 1)

DaySet == {days[i] : i \in 1..Len(days)}

IsBlock(cell) == cell.type = "block"

\* [location, instructor].filter(Boolean).join(' - ')
DetailsText(location, instructor) ==
  IF location # "" /\ instructor # "" THEN <<location, " - ", instructor>>
  ELSE IF location # "" THEN <<location>>
  ELSE IF instructor # "" THEN <<instructor>>
  ELSE <<>>

\* sharedGroups.length > 0 ? sharedGroups : [selectedGroup.group_code]
groupNumbersOf(sharedGroups, selectedGroup) ==
  IF Len(sharedGroups) > 0 THEN sharedGroups ELSE <<selectedGroup.group_code>>

\* The block of lines 671-702, given the group codes of its first row.
blockOf(session, selectedGroup, group_numbers) ==
  [type |-> "block",
   row1_course_info |->
     [course_code |-> selectedGroup.course_code,
      group_numbers |-> group_numbers,
      display_text |->
        Str(selectedGroup.course_code.chars \o <<" ">>
            \o Join(group_numbers, <<",">>))],
   row2_course_name |->
     [arabic_name |-> selectedGroup.course_name,
      display_text |-> selectedGroup.course_name],
   row3_details |->
     [hall_number |-> session.location,
      professor_name |-> session.instructor,
      display_text |-> DetailsText(session.location, session.instructor)],
   session_metadata |->
     [session_type |-> session.session_type,
      start_time |-> session.start_time,
      end_time |-> session.end_time,
      day_of_week |-> session.day_of_week,
      original_span |-> session.span]]

\* createCourseBlock(session, selectedGroup, courseGroups)
createCourseBlock(session, selectedGroup, catalog) ==
  blockOf(session, selectedGroup,
          groupNumbersOf(findSharedGroups(session, catalog), selectedGroup))

placeAtBug(schedule, session, dayIndex, timeSlotIndex, courseBlock) ==
  IF dayIndex # -1 /\ timeSlotIndex # -1
  THEN [schedule EXCEPT ![days[dayIndex + 1]] =
          [slotIndex \in SlotIndexes |->
             IF slotIndex >= timeSlotIndex
                /\ slotIndex - timeSlotIndex < session.span
             THEN courseBlock @@
                  [is_continuation |-> slotIndex - timeSlotIndex > 0,
                   span_position |-> slotIndex - timeSlotIndex,
                   total_span |-> session.span]
             ELSE @[slotIndex]]]
  ELSE schedule

\* Lines 638-653: the cells written for a session at (dayIndex, timeSlotIndex).
placeAt(schedule, session, dayIndex, timeSlotIndex, courseBlock) ==
  IF dayIndex # -1 /\ timeSlotIndex # -1
  THEN [schedule EXCEPT ![days[dayIndex + 1]] =
          [slotIndex \in SlotIndexes |->
             IF slotIndex >= timeSlotIndex
                /\ slotIndex - timeSlotIndex < session.span
             THEN courseBlock @@
                  [is_continuation |-> slotIndex - timeSlotIndex > 0,
                   span_position |-> slotIndex - timeSlotIndex + 1,
                   total_span |-> session.span]
             ELSE @[slotIndex]]]
  ELSE schedule

\* The placement of one session (the body of the loop over the sessions).
placeSession(schedule, session, selectedGroup, catalog) ==
  placeAt(schedule, session, dayIndexOf(session.day_of_week),
          findTimeSlotIndex(session.start_time),
          createCourseBlock(session, selectedGroup, catalog))

RECURSIVE placeSessions(_, _, _, _)
placeSessions(schedule, sessions, selectedGroup, catalog) ==
  IF sessions = <<>> THEN schedule
  ELSE placeSession(
         placeSessions(schedule, SubSeq(sessions, 1, Len(sessions) - 1),
                       selectedGroup, catalog),
         sessions[Len(sessions)], selectedGroup, catalog)

\* Lines 629-654; found holds the groups the find of line 625 ranges over.
placeFound(schedule, found, catalog) ==
  IF Len(found) = 0 THEN schedule
  ELSE placeSessions(schedule, found[1].sessions, found[1], catalog)

\* The body of the loop over the selections of buildWeeklyScheduleTable.
placeSelection(schedule, selection, catalog) ==
  LET isSelected(g) == /\ g.course_code = selection.course_code
                       /\ g.group_code = selection.group_number
  IN  placeFound(schedule, SelectSeq(catalog, isSelected), catalog)

RECURSIVE placeSelections(_, _, _)
placeSelections(schedule, selections, catalog) ==
  IF selections = <<>> THEN schedule
  ELSE placeSelection(
         placeSelections(schedule, SubSeq(selections, 1, Len(selections) - 1),
                         catalog),
         selections[Len(selections)], catalog)

EmptySchedule == [day \in DaySet |-> [slot \in SlotIndexes |-> Null]]

\* buildWeeklyScheduleTable(courseSelection, courseGroups)
buildWeeklyScheduleTable(selections, catalog) ==
  [structure |-> [days |-> days, time_slots |-> timeSlotMap,
                  total_cells |-> Len(days) * timeSlots],
   schedule |-> placeSelections(EmptySchedule, selections, catalog)]

conflictWithBug(schedule, day, cell, checkSlot) ==
  IF checkSlot \in SlotIndexes /\ IsBlock(schedule[day][checkSlot])
  THEN <<[day |-> day, time_slot |-> checkSlot,
          course1 |-> cell.row1_course_info.display_text,
          course2 |-> schedule[day][checkSlot].row1_course_info.display_text]>>
  ELSE <<>>

\* The conflict validateNoConflicts records for cell and checkSlot, if any.
conflictWith(schedule, day, cell, checkSlot) ==
  IF /\ checkSlot \in SlotIndexes
     /\ IsBlock(schedule[day][checkSlot])
     /\ ~schedule[day][checkSlot].is_continuation
  THEN <<[day |-> day, time_slot |-> checkSlot,
          course1 |-> cell.row1_course_info.display_text,
          course2 |-> schedule[day][checkSlot].row1_course_info.display_text]>>
  ELSE <<>>

\* The conflicts validateNoConflicts records for a cell at (day, slot).
conflictsOf(schedule, day, slot, cell) ==
  IF IsBlock(cell) /\ ~cell.is_continuation
  THEN Concat([k \in 1..(cell.total_span - 1) |->
                 conflictWith(schedule, day, cell, slot + k)])
  ELSE <<>>

conflictsAt(schedule, day, slot) ==
  conflictsOf(schedule, day, slot, schedule[day][slot])

conflictReport(conflicts) ==
  [has_conflicts |-> Len(conflicts) > 0,
   conflicts |-> conflicts,
   total_conflicts |-> Len(conflicts)]

\* validateNoConflicts(weeklyTable)
validateNoConflicts(weeklyTable) ==
  LET ofDay(day) ==
        Concat([s \in 1..timeSlots |-> conflictsAt(weeklyTable.schedule, day, s - 1)])
  IN  conflictReport(Concat([d \in 1..Len(days) |-> ofDay(days[d])]))

spanOfCell(cell) ==
  IF IsBlock(cell) /\ ~cell.is_continuation THEN cell.total_span ELSE 0

\* calculateTotalSpans(weeklyTable)
calculateTotalSpans(weeklyTable) ==
  LET ofDay(day) ==
        SumSeq([s \in 1..timeSlots |-> spanOfCell(weeklyTable.schedule[day][s - 1])])
  IN  SumSeq([d \in 1..Len(days) |-> ofDay(days[d])])

-----------------------------------------------------------------------------
(* generatePersonalizedSchedule *)

CaughtBug(message) ==
  [settled |-> "rejected", success |-> FALSE, error |-> message,
   validation_errors |-> Undefined, schedule |-> Null]

\* The value the catch clause returns for an error raised in the try block.
Caught(message) ==
  [settled |-> "fulfilled", success |-> FALSE, error |-> message,
   validation_errors |-> Undefined, schedule |-> Null]

\* The value returned when span validation is not valid.
SpanFailure(validation) ==
  [settled |-> "fulfilled", success |-> FALSE,
   error |-> "Course span validation failed",
   validation_errors |-> Arr(validation.errors),
   schedule |-> Null]

SucceededBug(selections, validation, weeklySchedule, conflictValidation) ==
  [settled |-> "fulfilled", success |-> ~conflictValidation.has_conflicts,
   error |-> "", validation_errors |-> Undefined,
   schedule |->
     [type |-> "schedule",
      weekly_table |-> weeklySchedule,
      course_selection |-> selections,
      span_validation |-> validation,
      conflict_validation |-> conflictValidation,
      generation_metadata |->
        [total_courses |-> Len(selections),
         total_spans |-> calculateTotalSpans(weeklySchedule)]]]

\* The value returned after the table is built and checked for conflicts.
Succeeded(selections, validation, weeklySchedule, conflictValidation) ==
  [settled |-> "fulfilled", success |-> TRUE,
   error |-> "", validation_errors |-> Undefined,
   schedule |->
     [type |-> "schedule",
      weekly_table |-> weeklySchedule,
      course_selection |-> selections,
      span_validation |-> validation,
      conflict_validation |-> conflictValidation,
      generation_metadata |->
        [total_courses |-> Len(selections),
         total_spans |-> calculateTotalSpans(weeklySchedule)]]]

\* Lines 66-82, with the table built.
afterBuild(selections, validation, weeklySchedule) ==
  Succeeded(selections, validation, weeklySchedule,
            validateNoConflicts(weeklySchedule))

\* Lines 54-82, with the selection validated.
afterValidation(selections, validation, catalog) ==
  [courseSelection |-> Arr(selections),
   spanValidation |-> validation,
   result |-> IF ~validation.isValid THEN SpanFailure(validation)
              ELSE afterBuild(selections, validation,
                              buildWeeklyScheduleTable(selections, catalog))]

\* Lines 52-91, with the selection parsed or a TypeError raised.
afterParse(parsed, catalog) ==
  IF parsed.threw
  THEN [courseSelection |-> Undefined, spanValidation |-> Undefined,
        result |-> Caught("TypeError")]
  ELSE afterValidation(parsed.value, validateCourseSpans(parsed.value, catalog),
                       catalog)

\* generatePersonalizedSchedule(courseGroups, userRequest): the locals
\* courseSelection and spanValidation as the call leaves them (undefined when
\* the call did not get to assign them) and the value the call settles with.
generatePersonalizedSchedule(catalog, request) ==
  afterParse(parseUserCourseSelection(request, catalog), catalog)

-----------------------------------------------------------------------------
(* The Grid Block Extractor (src/server/services/ExcelParserServiceFinal.js) *)
(*                                                                         *)
(* A grid is a sequence of rows, a row a sequence of cells, a cell a       *)
(* sequence of characters.  Rows and columns are numbered from 0 as in the *)
(* code.  An Arabic letter is written by its name ("meem", "dal", "alef",  *)
(* "ayn") and an Arabic day name, which the code only searches for as a    *)
(* whole, by its transliteration ("al-ahad").                              *)

excelTimeSlotsBug ==
  <<[column |-> 1, time |-> <<"9.00", " - ", "9.45">>],
    [column |-> 2, time |-> <<"9.45", " - ", "10.30">>],
    [column |-> 3, time |-> <<"10.30", " - ", "11.25">>],
    [column |-> 4, time |-> <<"11.25", " - ", "12.10">>],
    [column |-> 5, time |-> <<"12.20", " - ", "1.05">>],
    [column |-> 6, time |-> <<"1.05", " - ", "1.50">>],
    [column |-> 7, time |-> <<"2.00", " - ", "2.45">>],
    [column |-> 8, time |-> <<"2.45", " - ", "3.30">>]>>

\* this.timeSlots: the column and the time of each slot
excelTimeSlots ==
  <<[column |-> 1, time |-> <<"9.00", " - ", "9.45">>],
    [column |-> 2, time |-> <<"9.45", " - ", "10.30">>],
    [column |-> 3, time |-> <<"10.40", " - ", "11.25">>],
    [column |-> 4, time |-> <<"11.25", " - ", "12.10">>],
    [column |-> 5, time |-> <<"12.20", " - ", "1.05">>],
    [column |-> 6, time |-> <<"1.05", " - ", "1.50">>],
    [column |-> 7, time |-> <<"2.00", " - ", "2.45">>],
    [column |-> 8, time |-> <<"2.45", " - ", "3.30">>]>>

\* timeSlot.time.split(' - ')
SplitTime(time) == SelectSeq(time, LAMBDA t : t # " - ")

\* this.arabicDays, in the order of its keys
arabicDays ==
  <<[arabic |-> "as-sabt", english |-> "Saturday"],
    [arabic |-> "al-ahad", english |-> "Sunday"],
    [arabic |-> "al-ithnayn", english |-> "Monday"],
    [arabic |-> "ath-thulatha", english |-> "Tuesday"],
    [arabic |-> "al-arbia", english |-> "Wednesday"],
    [arabic |-> "al-khamis", english |-> "Thursday"],
    [arabic |-> "al-jumua", english |-> "Friday"]>>

\* null, where the code holds a day name or null
NoDay == "null"

\* text.includes(part)
IncludesText(text, part) ==
  \E i \in 1..(Len(text) - Len(part) + 1) : SubSeq(text, i, i + Len(part) - 1) = part

RECURSIVE dayNameFrom(_, _)
dayNameFrom(cellValue, i) ==
  IF i > Len(arabicDays) THEN NoDay
  ELSE IF IncludesText(cellValue, <<arabicDays[i].arabic>>) THEN arabicDays[i].english
  ELSE dayNameFrom(cellValue, i + 1)

\* findDayName(cellValue)
findDayName(cellValue) == dayNameFrom(cellValue, 1)

\* String(rawData[row][col] || '').trim(); a missing cell reads undefined
CellText(rawData, row, col) ==
  IF row < Len(rawData) /\ col < Len(rawData[row + 1])
  THEN Trim(rawData[row + 1][col + 1])
  ELSE <<>>

\* The lengths of the leading runs of letters, white space and digits.
LeadingRuns(cs) ==
  LET L == Run(cs, 1, UpperChars)
      W == Run(cs, L + 1, SpaceChars)
  IN  [L |-> L, W |-> W, D |-> Run(cs, L + W + 1, DigitChars)]

\* this.courseCodePattern.test(cs): /^([A-Z]{2,4})\s*(\d{3})$/
courseCodePattern(cs) ==
  LET p == LeadingRuns(cs)
  IN  p.L \in 2..4 /\ p.D = 3 /\ p.L + p.W + p.D = Len(cs)

\* this.sharedGroupPattern.test(cs): /^([A-Z]{2,4})\s*(\d{3})(\d{2}),(\d{2})$/
sharedGroupPattern(cs) ==
  LET p == LeadingRuns(cs)
  IN  /\ p.L \in 2..4 /\ p.D = 5 /\ Len(cs) = p.L + p.W + 8
      /\ cs[p.L + p.W + 6] = ","
      /\ cs[p.L + p.W + 7] \in DigitChars
      /\ cs[p.L + p.W + 8] \in DigitChars

\* this.singleCourseWithRoomPattern.test(cs):
\* /^([A-Z]{2,4})\s*(\d{3})(\d{2})\s+(C\d{3,4})$/
singleCourseWithRoomPattern(cs) ==
  LET p == LeadingRuns(cs)
      q == p.L + p.W + 6 + Run(cs, p.L + p.W + 6, SpaceChars)
  IN  /\ p.L \in 2..4 /\ p.D = 5
      /\ q > p.L + p.W + 6 /\ q <= Len(cs) /\ cs[q] = "C"
      /\ Run(cs, q + 1, DigitChars) \in {3, 4}
      /\ q + Run(cs, q + 1, DigitChars) = Len(cs)

\* The parts dept, courseNum and the first group of a cell one of the three
\* anchored patterns matches.
CodeParts(cs) ==
  LET p == LeadingRuns(cs)
  IN  [dept |-> SubSeq(cs, 1, p.L),
       courseNum |-> SubSeq(cs, p.L + p.W + 1, p.L + p.W + 3),
       group |-> IF Len(cs) >= p.L + p.W + 5
                 THEN SubSeq(cs, p.L + p.W + 4, p.L + p.W + 5) ELSE <<>>]

\* /C\d{3,4}/ matches at position i
RoomAt(cs, i) == cs[i] = "C" /\ Run(cs, i + 1, DigitChars) >= 3

\* this.roomPattern.test(cs): /C\d{3,4}/
roomPattern(cs) == \E i \in 1..Len(cs) : RoomAt(cs, i)

\* cs.match(this.roomPattern)[0]: the leftmost match, four digits if there are
roomMatch(cs) ==
  LET i == CHOOSE k \in 1..Len(cs) : RoomAt(cs, k) /\ \A j \in 1..(k - 1) : ~RoomAt(cs, j)
  IN  SubSeq(cs, i, i + (IF Run(cs, i + 1, DigitChars) >= 4 THEN 4 ELSE 3))

\* /([A-Z]{2,4})\s*(\d{3,5})/ matches at position i: the letters from i on are
\* two to four, and after the white space come at least three digits.
FallbackAt(cs, i) ==
  LET L == Run(cs, i, UpperChars)
  IN  /\ L \in 2..4
      /\ Run(cs, i + L + Run(cs, i + L, SpaceChars), DigitChars) >= 3

\* The leftmost match of the fallback pattern: its letters, whether white
\* space follows them, and its digits (five at most).
fallbackMatch(cs) ==
  LET i == CHOOSE k \in 1..Len(cs) : FallbackAt(cs, k) /\ \A j \in 1..(k - 1) : ~FallbackAt(cs, j)
      L == Run(cs, i, UpperChars)
      W == Run(cs, i + L, SpaceChars)
      D == Run(cs, i + L + W, DigitChars)
  IN  [letters |-> SubSeq(cs, i, i + L - 1),
       spaced |-> W > 0,
       numericPart |-> SubSeq(cs, i + L + W, i + L + W + (IF D > 5 THEN 5 ELSE D) - 1)]

\* numericPart.slice(-2)
LastTwo(cs) == IF Len(cs) <= 2 THEN cs ELSE SubSeq(cs, Len(cs) - 1, Len(cs))

NoCourse == [matched |-> FALSE, courseCode |-> <<>>, groups |-> <<>>]

\* Pattern 4 of parseCourseCell, with the match: white space is replaced by
\* one space, the group is the last two digits.
parseFallback(m) ==
  [matched |-> TRUE,
   courseCode |-> m.letters \o (IF m.spaced THEN <<" ">> ELSE <<>>) \o m.numericPart,
   groups |-> <<LastTwo(m.numericPart)>>]

\* Patterns 1 to 3 of parseCourseCell, with the parts of the cell.
parseAnchored(cs, parts) ==
  [matched |-> TRUE,
   courseCode |-> parts.dept \o <<" ">> \o parts.courseNum,
   groups |-> IF sharedGroupPattern(cs)
              THEN <<parts.group, SubSeq(cs, Len(cs) - 1, Len(cs))>>
              ELSE IF singleCourseWithRoomPattern(cs) THEN <<parts.group>>
              ELSE <<LastTwo(parts.courseNum)>>]

parseCourseCellBug(cellValue) ==
  IF \E i \in 1..Len(cellValue) : FallbackAt(cellValue, i)
  THEN parseFallback(fallbackMatch(cellValue))
  ELSE IF \/ sharedGroupPattern(cellValue)
          \/ singleCourseWithRoomPattern(cellValue)
          \/ courseCodePattern(cellValue)
  THEN parseAnchored(cellValue, CodeParts(cellValue))
  ELSE NoCourse

\* parseCourseCell(cellValue): null (matched FALSE) or courseCode and groups
parseCourseCell(cellValue) ==
  IF \/ sharedGroupPattern(cellValue)
     \/ singleCourseWithRoomPattern(cellValue)
     \/ courseCodePattern(cellValue)
  THEN parseAnchored(cellValue, CodeParts(cellValue))
  ELSE IF \E i \in 1..Len(cellValue) : FallbackAt(cellValue, i)
  THEN parseFallback(fallbackMatch(cellValue))
  ELSE NoCourse

\* isInstructorInfo(text)
isInstructorInfo(text) ==
  \/ IncludesText(text, <<"meem", ".">>)
  \/ IncludesText(text, <<"dal", ".">>)
  \/ IncludesText(text, <<"alef", ".">>)
  \/ Len(text) > 5 /\ ~roomPattern(text) /\ ~courseCodePattern(text)

\* The lookahead cell ends the span (the break of line 257).
stopsSpan(cellValue) ==
  /\ ~(cellValue = <<>> \/ roomPattern(cellValue) \/ isInstructorInfo(cellValue))
  /\ (courseCodePattern(cellValue) \/ sharedGroupPattern(cellValue))

RECURSIVE lookahead(_, _, _, _)
\* The number of columns the loop of calculateHorizontalSpan adds from
\* colOffset on.
lookahead(rawData, startRow, startCol, colOffset) ==
  IF colOffset > 3 THEN 0
  ELSE IF startCol + colOffset >= Len(rawData[startRow + 1]) THEN 0
  ELSE IF stopsSpan(CellText(rawData, startRow, startCol + colOffset)) THEN 0
  ELSE 1 + lookahead(rawData, startRow, startCol, colOffset + 1)

calculateHorizontalSpanBug(rawData, startRow, startCol) ==
  lookahead(rawData, startRow, startCol, 1)

\* calculateHorizontalSpan(rawData, startRow, startCol)
calculateHorizontalSpan(rawData, startRow, startCol) ==
  1 + lookahead(rawData, startRow, startCol, 1)

\* The cell can be the course name (the condition of lines 279-282; the last
\* conjunct is /^[A-Z]{2,4}\s*\d/).
isCourseName(cellValue) ==
  /\ cellValue # <<>>
  /\ ~courseCodePattern(cellValue)
  /\ ~roomPattern(cellValue)
  /\ ~(LeadingRuns(cellValue).L \in 2..4 /\ LeadingRuns(cellValue).D >= 1)

RECURSIVE courseNameFrom(_, _, _, _, _)
courseNameFrom(rawData, row, startCol, span, colOffset) ==
  IF colOffset >= span THEN <<>>
  ELSE IF isCourseName(CellText(rawData, row, startCol + colOffset))
  THEN CellText(rawData, row, startCol + colOffset)
  ELSE courseNameFrom(rawData, row, startCol, span, colOffset + 1)

\* extractCourseName(rawData, row, startCol, span)
extractCourseName(rawData, row, startCol, span) ==
  IF row >= Len(rawData) THEN <<>>
  ELSE courseNameFrom(rawData, row, startCol, span, 0)

\* One iteration of the loop of extractRoomAndInstructor (lines 309-325).
roomAndInstructorAt(found, cellValue) ==
  [room |-> IF found.room = <<>> /\ roomPattern(cellValue)
            THEN roomMatch(cellValue) ELSE found.room,
   instructor |-> IF /\ cellValue # <<>>
                     /\ found.instructor = <<>>
                     /\ ~roomPattern(cellValue)
                     /\ ~courseCodePattern(cellValue)
                  THEN cellValue ELSE found.instructor]

RECURSIVE roomAndInstructorUpTo(_, _, _, _, _)
roomAndInstructorUpTo(found, rawData, row, startCol, n) ==
  IF n = 0 THEN found
  ELSE roomAndInstructorAt(
         roomAndInstructorUpTo(found, rawData, row, startCol, n - 1),
         CellText(rawData, row, startCol + n - 1))

\* extractRoomAndInstructor(rawData, row, startCol, span, originalCell)
extractRoomAndInstructor(rawData, row, startCol, span, originalCell) ==
  roomAndInstructorUpTo(
    [room |-> IF roomPattern(originalCell) THEN roomMatch(originalCell) ELSE <<>>,
     instructor |-> <<>>],
    rawData, row, startCol, IF row < Len(rawData) THEN span ELSE 0)

\* The block of lines 165-183, with its span.
blockOfSpan(rawData, startRow, startCol, cellValue, courseInfo, span) ==
  LET roomAndInstructor ==
        extractRoomAndInstructor(rawData, startRow + 2, startCol, span, cellValue)
  IN
  [found |-> TRUE,
   courseCode |-> courseInfo.courseCode,
   groups |-> courseInfo.groups,
   courseName |-> extractCourseName(rawData, startRow + 1, startCol, span),
   room |-> roomAndInstructor.room,
   instructor |-> roomAndInstructor.instructor,
   span |-> span,
   startRow |-> startRow,
   startCol |-> startCol]

NoBlock ==
  [found |-> FALSE, courseCode |-> <<>>, groups |-> <<>>, courseName |-> <<>>,
   room |-> <<>>, instructor |-> <<>>, span |-> 0, startRow |-> 0, startCol |-> 0]

blockOfCourse(rawData, startRow, startCol, cellValue, courseInfo) ==
  IF ~courseInfo.matched THEN NoBlock
  ELSE blockOfSpan(rawData, startRow, startCol, cellValue, courseInfo,
                   calculateHorizontalSpan(rawData, startRow, startCol))

blockOfCell(rawData, startRow, startCol, cellValue) ==
  IF cellValue = <<>> THEN NoBlock
  ELSE blockOfCourse(rawData, startRow, startCol, cellValue, parseCourseCell(cellValue))

\* detectCourseBlock(rawData, startRow, startCol): null (found FALSE) or the
\* block; the span it tracks is added by trackCourseSpan below.
detectCourseBlock(rawData, startRow, startCol) ==
  blockOfCell(rawData, startRow, startCol, CellText(rawData, startRow, startCol))

\* trackCourseSpan(courseCode, span): the tracker maps a course code to the
\* set of its spans; it is the set of the pairs <<courseCode, span>>.
trackCourseSpan(tracker, courseCode, span) ==
  tracker \cup {<<courseCode, span>>}

\* markBlockAsProcessed(startRow, startCol, span)
markBlockAsProcessed(processed, startRow, startCol, span) ==
  processed \cup
    {<<startRow + rowOffset, startCol + colOffset>> :
       rowOffset \in 0..2, colOffset \in 0..(span - 1)}

\* determineSessionType(courseName, room, groups)
determineSessionType(courseName, room, groups) ==
  IF Len(groups) > 1 THEN "lecture" ELSE "lab"

\* createScheduleEntries(courseBlock, day, timeSlot)
createScheduleEntries(courseBlock, day, timeSlot) ==
  [g \in 1..Len(courseBlock.groups) |->
     [course_code |-> courseBlock.courseCode,
      group_code |-> PadStart(courseBlock.groups[g]),
      course_name |-> courseBlock.courseName,
      instructor |-> courseBlock.instructor,
      location |-> courseBlock.room,
      day_of_week |-> day,
      start_time |-> SplitTime(timeSlot.time)[1],
      end_time |-> SplitTime(timeSlot.time)[2],
      session_type |-> determineSessionType(courseBlock.courseName,
                                            courseBlock.room, courseBlock.groups),
      time_slot |-> timeSlot.column,
      span |-> courseBlock.span,
      shared_groups |-> IF Len(courseBlock.groups) > 1
                        THEN courseBlock.groups ELSE <<>>]]

\* Lines 135-143 for a detected block, with the entries made of it: the
\* block is marked, its span tracked (line 172), the entries appended and the
\* block logged (line 143; the log keeps the entries of the block with it).
withEntries(scan, courseBlock, entries) ==
  [scan EXCEPT
     !.processedBlocks = markBlockAsProcessed(@, courseBlock.startRow,
                                              courseBlock.startCol, courseBlock.span),
     !.courseSpanTracker = trackCourseSpan(@, courseBlock.courseCode, courseBlock.span),
     !.scheduleEntries = @ \o entries,
     !.logged = Append(@, [startRow |-> courseBlock.startRow,
                           startCol |-> courseBlock.startCol,
                           courseCode |-> courseBlock.courseCode,
                           groups |-> courseBlock.groups,
                           span |-> courseBlock.span,
                           entries |-> entries])]

withBlock(scan, courseBlock, timeSlot) ==
  withEntries(scan, courseBlock,
              createScheduleEntries(courseBlock, scan.currentDay, timeSlot))

afterDetect(scan, courseBlock, timeSlot) ==
  IF courseBlock.found THEN withBlock(scan, courseBlock, timeSlot) ELSE scan

\* The body of the loop over the columns (lines 123-144).
scanCell(scan, rawData, rowIndex, colIndex) ==
  IF <<rowIndex, colIndex>> \in scan.processedBlocks THEN scan
  ELSE afterDetect(scan, detectCourseBlock(rawData, rowIndex, colIndex),
                   excelTimeSlots[colIndex - 1])

RECURSIVE scanCols(_, _, _, _)
\* The loop over the columns 2 to colIndex of a row.
scanCols(scan, rawData, rowIndex, colIndex) ==
  IF colIndex < 2 THEN scan
  ELSE scanCell(scanCols(scan, rawData, rowIndex, colIndex - 1),
                rawData, rowIndex, colIndex)

dayAfterBug(currentDay, foundDay) ==
  IF currentDay = NoDay THEN foundDay ELSE currentDay

\* currentDay = foundDay (line 113)
dayAfter(currentDay, foundDay) == foundDay

\* Lines 110-145 for a row, with the day name found in its first cell.
scanRowWithDay(scan, rawData, rowIndex, foundDay) ==
  IF foundDay # NoDay
  THEN [scan EXCEPT !.currentDay = dayAfter(@, foundDay)]
  ELSE IF scan.currentDay = NoDay THEN scan
  ELSE scanCols(scan, rawData, rowIndex, 9)

\* The body of the loop over the rows (lines 107-145).
scanRow(scan, rawData, rowIndex) ==
  scanRowWithDay(scan, rawData, rowIndex, findDayName(CellText(rawData, rowIndex, 0)))

RECURSIVE scanRows(_, _, _)
\* The loop over the rows 0 to n - 1.
scanRows(scan, rawData, n) ==
  IF n = 0 THEN scan
  ELSE scanRow(scanRows(scan, rawData, n - 1), rawData, n - 1)

\* detectAllCourseBlocks(rawData) on a parser with the given fields: the
\* entries, the blocks logged and the fields as the call leaves them.
detectAllCourseBlocks(rawData, processed, tracker) ==
  scanRows([scheduleEntries |-> <<>>, logged |-> <<>>, currentDay |-> NoDay,
            processedBlocks |-> processed,
            courseSpanTracker |-> tracker],
           rawData, Len(rawData))

\* The session groupSessionsByCourseGroup makes of an entry (lines 460-468).
sessionOf(entry) ==
  [day_of_week |-> entry.day_of_week,
   start_time |-> entry.start_time,
   end_time |-> entry.end_time,
   location |-> entry.location,
   instructor |-> entry.instructor,
   session_type |-> entry.session_type,
   span |-> entry.span]

addToGroupsBug(groups, entry) ==
  IF \E k \in 1..Len(groups) : groups[k].course_code = entry.course_code
  THEN [k \in 1..Len(groups) |->
          IF groups[k].course_code = entry.course_code
          THEN [groups[k] EXCEPT !.sessions = Append(@, sessionOf(entry))]
          ELSE groups[k]]
  ELSE Append(groups, [course_code |-> entry.course_code,
                       group_code |-> entry.group_code,
                       course_name |-> entry.course_name,
                       sessions |-> <<sessionOf(entry)>>])

\* One iteration of the loop of groupSessionsByCourseGroup.
addToGroups(groups, entry) ==
  IF \E k \in 1..Len(groups) : /\ groups[k].course_code = entry.course_code
                               /\ groups[k].group_code = entry.group_code
  THEN [k \in 1..Len(groups) |->
          IF /\ groups[k].course_code = entry.course_code
             /\ groups[k].group_code = entry.group_code
          THEN [groups[k] EXCEPT !.sessions = Append(@, sessionOf(entry))]
          ELSE groups[k]]
  ELSE Append(groups, [course_code |-> entry.course_code,
                       group_code |-> entry.group_code,
                       course_name |-> entry.course_name,
                       sessions |-> <<sessionOf(entry)>>])

RECURSIVE groupSessionsByCourseGroup(_)
\* groupSessionsByCourseGroup(scheduleEntries)
groupSessionsByCourseGroup(scheduleEntries) ==
  IF scheduleEntries = <<>> THEN <<>>
  ELSE addToGroups(
         groupSessionsByCourseGroup(SubSeq(scheduleEntries, 1, Len(scheduleEntries) - 1)),
         scheduleEntries[Len(scheduleEntries)])

\* getSpanStatistics()
getSpanStatistics(tracker) ==
  LET courses == {t[1] : t \in tracker}
      spansOf(c) == {t[2] : t \in {u \in tracker : u[1] = c}}
  IN  [total_courses |-> Cardinality(courses),
       consistent_courses |-> Cardinality({c \in courses : Cardinality(spansOf(c)) = 1}),
       inconsistent_courses |-> Cardinality({c \in courses : Cardinality(spansOf(c)) # 1}),
       span_distribution |->
         [n \in {t[2] : t \in tracker} |->
            Cardinality({t \in tracker : t[2] = n})]]

\* getParsingSummary(scheduleEntries)
getParsingSummary(scheduleEntries) ==
  LET entries == {scheduleEntries[k] : k \in 1..Len(scheduleEntries)}
      count(P(_)) == Cardinality({k \in 1..Len(scheduleEntries) : P(scheduleEntries[k])})
  IN  [total_entries |-> Len(scheduleEntries),
       course_codes_found |-> Cardinality({e.course_code : e \in entries}),
       groups_found |-> Cardinality({<<e.course_code, e.group_code>> : e \in entries}),
       with_course_names |-> count(LAMBDA e : e.course_name # <<>>),
       with_rooms |-> count(LAMBDA e : e.location # <<>>),
       with_instructors |-> count(LAMBDA e : e.instructor # <<>>),
       shared_group_entries |-> count(LAMBDA e : Len(e.shared_groups) > 0)]

\* Lines 76-91, with the scan done: the value parseExcelFile resolves with
\* and the fields of the parser after the call.
parsedOf(scan) ==
  [processedBlocks |-> scan.processedBlocks,
   courseSpanTracker |-> scan.courseSpanTracker,
   logged |-> scan.logged,
   value |-> [course_groups |-> groupSessionsByCourseGroup(scan.scheduleEntries),
              schedule_entries |-> scan.scheduleEntries,
              span_statistics |-> getSpanStatistics(scan.courseSpanTracker),
              parsing_summary |-> getParsingSummary(scan.scheduleEntries)]]

newSpanTrackerBug(tracker) == tracker

\* this.courseSpanTracker = new Map() (line 57)
newSpanTracker(tracker) == {}

newProcessedBlocksBug(processed) == processed

\* this.processedBlocks = new Set() (line 58)
newProcessedBlocks(processed) == {}

\* parseExcelFile on a parser with the given fields, rawData being what
\* sheet_to_json makes of the uploaded file.  The function has no await: once
\* called it runs to its return without another handler in between.
parseExcelFile(rawData, processed, tracker) ==
  parsedOf(detectAllCourseBlocks(rawData, newProcessedBlocks(processed),
                                 newSpanTracker(tracker)))

-----------------------------------------------------------------------------
(* Inputs *)

MaxCourses == 2

MaxCatalog == 2

CS200 == <<"C", "S", " ", "2", "0", "0">>

EEC999 == <<"E", "E", "C", " ", "9", "9", "9">>

\* A session as groupSessionsByCourseGroup stores it (no course_code field).
Session(day, start, end, type, span) ==
  [course_code |-> Undefined, day_of_week |-> day, start_time |-> start,
   end_time |-> end, location |-> "C401", instructor |-> "",
   session_type |-> type, span |-> span]

CourseGroup(code, group, sessions) ==
  [course_code |-> Str(code), group_code |-> Str(group),
   course_name |-> "name", sessions |-> sessions]

GroupPool ==
  <<CourseGroup(EEC101, <<"0", "5">>,
      <<Session("Sunday", "9.00", "10.30", "lecture", 2),
        Session("Monday", "9.45", "10.30", "lab", 1)>>),
    CourseGroup(EEC101, <<"0", "2">>,
      <<Session("Sunday", "9.00", "12.10", "lab", 4)>>),
    CourseGroup(EEC113, <<"0", "1">>,
      <<Session("Sunday", "9.00", "11.25", "lab", 3),
        Session("Thursday", "2.00", "2.45", "lecture", 1)>>),
    CourseGroup(EEC113, <<"0", "3">>,
      <<Session("Sunday", "9.45", "10.30", "lab", 1),
        Session("Thursday", "2.00", "2.45", "lecture", 1)>>),
    CourseGroup(CS200, <<"0", "2">>,
      <<Session("Wednesday", "3.30", "4.15", "lab", 1),
        Session("Wednesday", "2.45", "3.30", "lab", 2),
        Session("Wed", "9.00", "9.45", "lab", 1)>>)>>

\* The sequences of at most n distinct indexes of the group pool.
RECURSIVE IndexSeqs(_)
IndexSeqs(n) ==
  IF n = 0 THEN {<<>>}
  ELSE LET shorter == IndexSeqs(n - 1)
       IN  shorter \cup
           {Append(s, i) : s \in {t \in shorter : Len(t) = n - 1},
                           i \in 1..Len(GroupPool)}

Distinct(s) == \A i, j \in 1..Len(s) : i # j => s[i] # s[j]

Catalogs ==
  {[k \in 1..Len(s) |-> GroupPool[s[k]]] : s \in {t \in IndexSeqs(MaxCatalog) : Distinct(t)}}

ItemPool ==
  {Str(EEC101),
   Str(<<"E", "E", "C", " ", "1", "0", "1", "0", "5">>),
   Str(<<"E", "E", "C", "1", "0", "1", "0", "6">>),
   Str(<<"E", "E", "C", " ", "1", "0", "1", "0", "5", ",", "0", "6">>),
   Str(EEC999),
   Str(<<>>),
   Str(EEC113),
   Str(CS200),
   Str(<<" ">> \o EEC101),
   Obj(Str(EEC101), Str(<<"5">>)),
   Obj(Str(EEC101), Undefined),
   Obj(Undefined, Str(<<"0", "5">>)),
   Obj(Str(EEC113), Str(<<"1", "0", "3">>)),
   Obj(Str(EEC101), Num(5)),
   Null,
   Num(42)}

RECURSIVE ItemSeqs(_)
ItemSeqs(n) ==
  IF n = 0 THEN {<<>>}
  ELSE LET shorter == ItemSeqs(n - 1)
       IN  shorter \cup
           {Append(s, x) : s \in {t \in shorter : Len(t) = n - 1}, x \in ItemPool}

Requests ==
  {Null, Request(Undefined)} \cup {Request(Arr(s)) : s \in ItemSeqs(MaxCourses)}

NoResult ==
  [settled |-> "pending", success |-> FALSE, error |-> "",
   validation_errors |-> Undefined, schedule |-> Null]

\* A row of the sheet: the day column, an unused column, the slot columns.
GridRow(dayCell, slotCells) == <<dayCell, <<>>>> \o slotCells

\* The pieces the grids are made of: day labels with text around them, a
\* band of three rows and single rows of course cells, one of them with a
\* cell to the right of column J.  The cells: the
\* shared-group form with the codes in either order, the form with a room,
\* five digits that only the fallback pattern matches, a short text, an
\* Arabic name, instructor text with an honorific, and a room.
GridPieces ==
  LET Shared0506 == <<"E", "E", "C", " ", "1", "0", "1", "0", "5", ",", "0", "6">>
      Shared0605 == <<"E", "E", "C", " ", "1", "0", "1", "0", "6", ",", "0", "5">>
      WithRoom == <<"E", "E", "C", " ", "1", "1", "3", "0", "2", " ", "C", "4", "0", "1">>
      FiveDigits == <<"E", "E", "C", " ", "1", "0", "1", "0", "5">>
      ShortText == <<"A", "B">>
      ArabicName == <<"ayn", "ayn", "ayn">>
      Instructor == <<"dal", ".", " ", "ayn", "ayn">>
      Room == <<" ", "C", "4", "0", "1">>
  IN  << <<GridRow(<<"al-ahad">>, <<>>)>>,
         <<GridRow(<<" ", "ayn", "al-ithnayn", " ">>, <<EEC113>>)>>,
         <<GridRow(<<>>, <<Shared0506, <<>>, EEC113>>),
           GridRow(<<>>, <<ArabicName, <<>>, <<>>>>),
           GridRow(<<>>, <<Room, Instructor, <<>>>>)>>,
         <<GridRow(<<>>, <<<<>>, Shared0605, <<>>, <<>>, <<>>, <<>>, <<>>,
                           EEC113, Room>>)>>,
         <<GridRow(<<>>, <<WithRoom, EEC113, WithRoom, Shared0506, <<>>,
                           FiveDigits, ShortText>>)>> >>

MaxPieces == 3

RECURSIVE GridsOf(_)
\* The grids of at most n pieces.
GridsOf(n) ==
  IF n = 0 THEN {<<>>}
  ELSE LET shorter == GridsOf(n - 1)
       IN  shorter \cup {g \o GridPieces[i] : g \in shorter, i \in 1..Len(GridPieces)}

\* The sheets of the first request.
Grids == GridsOf(MaxPieces)

\* The grids the second request can bring besides the grid of the first.
OtherGrids ==
  {GridPieces[1] \o GridPieces[3], GridPieces[1] \o GridPieces[4] \o GridPieces[5]}

\* The two concurrent requests to /api/excel/parse.
ParseRequests == {1, 2}

NoParse ==
  [course_groups |-> <<>>, schedule_entries |-> <<>>,
   span_statistics |-> <<>>, parsing_summary |-> <<>>]

-----------------------------------------------------------------------------
(* The state machine: a request against a catalog, then the call. *)

Init ==
  /\ courseGroups \in Catalogs
  /\ userRequest \in Requests
  /\ pc = "request"
  /\ courseSelection = Undefined
  /\ spanValidation = Undefined
  /\ result = NoResult
  /\ excelFile = [r \in ParseRequests |-> <<>>]
  /\ excelPc = [r \in ParseRequests |-> "none"]
  /\ parseResult = [r \in ParseRequests |-> NoParse]
  /\ consoleLog = [r \in ParseRequests |-> <<>>]
  /\ processedBlocks = {}
  /\ courseSpanTracker = {}

catalogAfterBug(catalog, request) ==
  [k \in 1..Len(catalog) |-> catalog[Len(catalog) + 1 - k]]

\* The caller's courseGroups array after the call: no statement of the call
\* assigns to it, to a CourseGroup or to a session; selectSmartGroup sorts
\* the array that filter and map made (lines 148-152) and findSharedGroups
\* its own matchingSessions (lines 713, 728).
catalogAfter(catalog, request) == catalog

\* The call is over: its locals and its value are recorded.
Settle(call) ==
  /\ courseSelection' = call.courseSelection
  /\ spanValidation' = call.spanValidation
  /\ result' = call.result
  /\ pc' = "done"
  /\ courseGroups' = catalogAfter(courseGroups, userRequest)
  /\ UNCHANGED userRequest
  /\ UNCHANGED parserVars

\* POST /generate-personalized: the call of generatePersonalizedSchedule
GeneratePersonalized ==
  /\ pc = "request"
  /\ Settle(generatePersonalizedSchedule(courseGroups, userRequest))

Next == GeneratePersonalized

Spec == Init /\ [][Next]_vars

-----------------------------------------------------------------------------
(* The state machine of the parser: two requests to /api/excel/parse share *)
(* the one parser of src/server/routes/excel.js.                           *)

ExtractInit ==
  /\ excelFile \in {f \in [ParseRequests -> Grids \cup OtherGrids] :
                      f[1] \in Grids /\ f[2] \in {f[1]} \cup OtherGrids}
  /\ excelPc = [r \in ParseRequests |-> "uploaded"]
  /\ parseResult = [r \in ParseRequests |-> NoParse]
  /\ consoleLog = [r \in ParseRequests |-> <<>>]
  /\ processedBlocks = {}
  /\ courseSpanTracker = {}
  /\ courseGroups = <<>>
  /\ userRequest = Null
  /\ pc = "none"
  /\ courseSelection = Undefined
  /\ spanValidation = Undefined
  /\ result = NoResult

\* The call has returned: the fields of the parser, its value and its log.
ParseReturns(r, parsed) ==
  /\ processedBlocks' = parsed.processedBlocks
  /\ courseSpanTracker' = parsed.courseSpanTracker
  /\ parseResult' = [parseResult EXCEPT ![r] = parsed.value]
  /\ consoleLog' = [consoleLog EXCEPT ![r] = parsed.logged]
  /\ excelPc' = [excelPc EXCEPT ![r] = "parsed"]
  /\ UNCHANGED excelFile
  /\ UNCHANGED generatorVars

\* The handler of POST /api/excel/parse up to its await (lines 57-72): the
\* call of parseExcelFile on the shared parser.
ParseExcel(r) ==
  /\ excelPc[r] = "uploaded"
  /\ ParseReturns(r, parseExcelFile(excelFile[r], processedBlocks, courseSpanTracker))

\* The handler after its await (lines 76-114): the response is sent.
RespondParse(r) ==
  /\ excelPc[r] = "parsed"
  /\ excelPc' = [excelPc EXCEPT ![r] = "responded"]
  /\ UNCHANGED <<excelFile, parseResult, consoleLog, processedBlocks, courseSpanTracker>>
  /\ UNCHANGED generatorVars

ExtractNext == \E r \in ParseRequests : ParseExcel(r) \/ RespondParse(r)

ExtractSpec == ExtractInit /\ [][ExtractNext]_vars

-----------------------------------------------------------------------------
(* Vocabulary of the properties *)

Done == pc = "done"

\* The call is over and parseUserCourseSelection returned a selection.
Returned == Done /\ courseSelection.type = "array"

Sel == courseSelection.items

HasCourse(code) ==
  \E i \in 1..Len(courseGroups) : courseGroups[i].course_code = code

HasGroup(code, group) ==
  \E i \in 1..Len(courseGroups) :
    /\ courseGroups[i].course_code = code
    /\ courseGroups[i].group_code = group

InCatalog(selection) == HasGroup(selection.course_code, selection.group_number)

AllInCatalog == \A i \in 1..Len(Sel) : InCatalog(Sel[i])

TheGroup(selection) ==
  courseGroups[CHOOSE i \in 1..Len(courseGroups) :
                 /\ courseGroups[i].course_code = selection.course_code
                 /\ courseGroups[i].group_code = selection.group_number]

\* The message expected for a selection that has no CourseGroup.
NotFoundMessage(selection) ==
  IF HasCourse(selection.course_code)
  THEN <<"Group ", selection.group_number, " not found for course ",
         selection.course_code>>
  ELSE <<"Course ", selection.course_code, " not found in Excel data">>

RECURSIVE SpanTotal(_)
SpanTotal(sessions) ==
  IF sessions = <<>> THEN 0 ELSE Head(sessions).span + SpanTotal(Tail(sessions))

Mismatch(selection) ==
  /\ trueSpanValues(selection.course_code).type = "number"
  /\ trueSpanValues(selection.course_code).n # SpanTotal(TheGroup(selection).sessions)

\* The decompositions of a string as DEPT, optional white space, NNN, gg.
ExplicitParts(cs) ==
  {p \in (2..4) \X (0..Len(cs)) :
     /\ Len(cs) = p[1] + p[2] + 5
     /\ \A i \in 1..p[1] : cs[i] \in UpperChars
     /\ \A i \in (p[1] + 1)..(p[1] + p[2]) : cs[i] \in SpaceChars
     /\ \A i \in (p[1] + p[2] + 1)..Len(cs) : cs[i] \in DigitChars}

IsExplicit(input) == input.type = "string" /\ ExplicitParts(input.chars) # {}

ExplicitCourse(cs) ==
  LET p == CHOOSE q \in ExplicitParts(cs) : TRUE
  IN  Str(SubSeq(cs, 1, p[1]) \o <<" ">>
          \o SubSeq(cs, p[1] + p[2] + 1, p[1] + p[2] + 3))

ExplicitGroupOf(cs) == Str(SubSeq(cs, Len(cs) - 1, Len(cs)))

\* The decompositions of a string as DEPT, optional white space, NNN, gg "," gg.
SharedParts(cs) ==
  {p \in (2..4) \X (0..Len(cs)) :
     /\ Len(cs) = p[1] + p[2] + 8
     /\ \A i \in 1..p[1] : cs[i] \in UpperChars
     /\ \A i \in (p[1] + 1)..(p[1] + p[2]) : cs[i] \in SpaceChars
     /\ \A i \in (p[1] + p[2] + 1)..(p[1] + p[2] + 5) : cs[i] \in DigitChars
     /\ cs[p[1] + p[2] + 6] = ","
     /\ \A i \in (p[1] + p[2] + 7)..Len(cs) : cs[i] \in DigitChars}

IsSharedForm(input) == input.type = "string" /\ SharedParts(input.chars) # {}

SharedCourse(cs) ==
  LET p == CHOOSE q \in SharedParts(cs) : TRUE
  IN  Str(SubSeq(cs, 1, p[1]) \o <<" ">>
          \o SubSeq(cs, p[1] + p[2] + 1, p[1] + p[2] + 3))

SharedGroupsOf(cs) ==
  {Str(SubSeq(cs, Len(cs) - 4, Len(cs) - 3)), Str(SubSeq(cs, Len(cs) - 1, Len(cs)))}

\* The items of the request, when desired_courses is an array.
Items ==
  IF userRequest.type = "request" /\ userRequest.desired_courses.type = "array"
  THEN userRequest.desired_courses.items ELSE <<>>

\* a precedes b in the order of their characters, position by position
Before(a, b) ==
  \E k \in 1..Len(b) :
    /\ \A i \in 1..(k - 1) : i <= Len(a) /\ a[i] = b[i]
    /\ \/ k > Len(a)
       \/ \E x, y \in 1..Len(CodeUnitOrder) :
            CodeUnitOrder[x] = a[k] /\ CodeUnitOrder[y] = b[k] /\ x < y

GroupsOf(code) ==
  {courseGroups[i].group_code :
     i \in {j \in 1..Len(courseGroups) : courseGroups[j].course_code = code}}

SmartExpected(code) ==
  IF G01 \in GroupsOf(code) \/ GroupsOf(code) = {} THEN G01
  ELSE CHOOSE g \in GroupsOf(code) :
         \A h \in GroupsOf(code) : h = g \/ Before(g.chars, h.chars)

\* The input names no group: smart selection decides.
NamesNoGroup(input) ==
  \/ input.type = "string" /\ ~IsExplicit(input)
  \/ input.type = "object" /\ ~Truthy(input.group)

-----------------------------------------------------------------------------
(* Properties *)

\* C1: every resolved selection that has no CourseGroup in the catalog makes
\* the result fail, with 'Course <code> not found in Excel data' in
\* validation_errors when the catalog has no group of the course and
\* 'Group <gg> not found for course <code>' when it has the course only.
C1_MissingGroupIsHardError ==
  Returned =>
    \A i \in 1..Len(Sel) :
      ~InCatalog(Sel[i]) =>
        /\ result.success = FALSE
        /\ result.validation_errors.type = "array"
        /\ Includes(result.validation_errors.items, NotFoundMessage(Sel[i]))

C1_Witness ==
  /\ Returned
  /\ \E i \in 1..Len(Sel) : HasCourse(Sel[i].course_code) /\ ~InCatalog(Sel[i])
  /\ \E i \in 1..Len(Sel) : ~HasCourse(Sel[i].course_code)
  /\ result.success = FALSE

SameStart(a, b) ==
  /\ InCatalog(a) /\ InCatalog(b)
  /\ TheGroup(a) # TheGroup(b)
  /\ \E x \in 1..Len(TheGroup(a).sessions), y \in 1..Len(TheGroup(b).sessions) :
       LET sa == TheGroup(a).sessions[x]
           sb == TheGroup(b).sessions[y]
       IN  /\ sa.day_of_week = sb.day_of_week
           /\ sa.start_time = sb.start_time
           /\ sa.day_of_week \in DaySet
           /\ sa.start_time \in {"9.00", "9.45", "10.40", "11.25",
                                 "12.20", "1.05", "2.00", "2.45"}

\* C3: two selections whose sessions start at the same (day, slot) give
\* has_conflicts = TRUE and total_conflicts = 1, with success still TRUE.
C3_SameStartIsOneConflict ==
  Returned /\ Len(Sel) = 2 /\ SameStart(Sel[1], Sel[2]) =>
    /\ result.success = TRUE
    /\ result.schedule.conflict_validation.has_conflicts = TRUE
    /\ result.schedule.conflict_validation.total_conflicts = 1

NotInCatalog(selection) == ~InCatalog(selection)

\* The messages expected for the selections without a CourseGroup, in order.
ExpectedErrors ==
  LET failing == SelectSeq(Sel, NotInCatalog)
  IN  [k \in 1..Len(failing) |-> NotFoundMessage(failing[k])]

\* C5: validation does not stop at the first selection without a CourseGroup:
\* validation_errors holds one message per such selection, in request order,
\* and the selections after it are validated too.
C5_ErrorsAccumulate ==
  Returned =>
    /\ spanValidation.errors = ExpectedErrors
    /\ Len(spanValidation.course_span_summary) + Len(ExpectedErrors) = Len(Sel)
    /\ Len(ExpectedErrors) > 0 =>
         result.validation_errors = Arr(ExpectedErrors)

C5_Witness ==
  /\ Returned
  /\ Len(Sel) = MaxCourses
  /\ ~InCatalog(Sel[1])
  /\ \A i \in 2..(Len(Sel) - 1) : ~InCatalog(Sel[i])
  /\ InCatalog(Sel[Len(Sel)])
  /\ Len(result.validation_errors.items) = MaxCourses - 1
  /\ Len(spanValidation.course_span_summary) = 1

\* C6: the call never rejects: for every request it is fulfilled with a
\* result object that has a success flag.
C6_NeverRejects ==
  Done => result.settled = "fulfilled" /\ result.success \in BOOLEAN

C6_Witness ==
  /\ Done
  /\ courseSelection = Undefined
  /\ Items # <<>>
  /\ result.settled = "fulfilled"
  /\ result.success = FALSE

\* An item that cannot be read as a course.
Uninterpretable(input) ==
  \/ input = Str(<<>>)
  \/ input.type \notin {"string", "object", "null"}
  \/ input.type = "object" /\ input.code = Undefined

\* C7: a desired_courses item that cannot be read as a course makes the result
\* fail; it is never dropped while the result reports success.
C7_UninterpretableItemFails ==
  Done /\ (\E k \in 1..Len(Items) : Uninterpretable(Items[k])) =>
    result.success = FALSE

\* C8: for an input that names no group, the selected group is '01' when the
\* catalog has group '01' of the course, otherwise the first group code of the
\* course in lexicographic order, otherwise '01'; it is never a group code
\* the catalog has only for another course.
C8_SmartGroupSelection ==
  Returned =>
    \A i \in 1..Len(Sel) :
      NamesNoGroup(Sel[i].original_input) =>
        /\ Sel[i].group_number = SmartExpected(Sel[i].course_code)
        /\ GroupsOf(Sel[i].course_code) # {} =>
             Sel[i].group_number \in GroupsOf(Sel[i].course_code)

C8_Witness ==
  /\ Returned
  /\ \E i \in 1..Len(Sel) :
       /\ NamesNoGroup(Sel[i].original_input)
       /\ Cardinality(GroupsOf(Sel[i].course_code)) > 1
       /\ G01 \notin GroupsOf(Sel[i].course_code)
       /\ \E j \in 1..Len(courseGroups) :
            /\ courseGroups[j].course_code = Sel[i].course_code
            /\ \A h \in 1..(j - 1) :
                 courseGroups[h].course_code # Sel[i].course_code
            /\ courseGroups[j].group_code # Sel[i].group_number
       /\ InCatalog(Sel[i])

\* Every item written DEPT NNNgg is resolved to 'DEPT NNN' and gg as written.
ExplicitAsWritten ==
  /\ \A i \in 1..Len(Sel) :
       IsExplicit(Sel[i].original_input) =>
         /\ Sel[i].course_code = ExplicitCourse(Sel[i].original_input.chars)
         /\ Sel[i].group_number = ExplicitGroupOf(Sel[i].original_input.chars)
  /\ \A k \in 1..Len(Items) :
       IsExplicit(Items[k]) =>
         \E i \in 1..Len(Sel) : Sel[i].original_input = Items[k]

C10_SharedGroupFormAccepted ==
  Done /\ Len(Items) = 1 /\ IsSharedForm(Items[1])
       /\ (\E g \in SharedGroupsOf(Items[1].chars) :
             HasGroup(SharedCourse(Items[1].chars), g)) =>
    /\ result.success = TRUE
    /\ Len(result.schedule.course_selection) = 1
    /\ result.schedule.course_selection[1].course_code
         = SharedCourse(Items[1].chars)
    /\ result.schedule.course_selection[1].group_number
         \in SharedGroupsOf(Items[1].chars)

-----------------------------------------------------------------------------
(* Properties of the table: shared groups and conflicts *)

\* The call returned a schedule.
Scheduled == Returned /\ result.success

Table == result.schedule.weekly_table.schedule

BlockCells == {p \in DaySet \X SlotIndexes : IsBlock(Table[p[1]][p[2]])}

\* g has a session at the day, start, end and type of the block in cell.
HasSessionOf(g, cell) ==
  \E k \in 1..Len(g.sessions) :
    /\ g.sessions[k].day_of_week = cell.session_metadata.day_of_week
    /\ g.sessions[k].start_time = cell.session_metadata.start_time
    /\ g.sessions[k].end_time = cell.session_metadata.end_time
    /\ g.sessions[k].session_type = cell.session_metadata.session_type

\* The groups of the catalog that share the session of the block in cell.
Sharers(cell) ==
  LET shares(g) == /\ g.course_code = cell.row1_course_info.course_code
                   /\ HasSessionOf(g, cell)
  IN  SelectSeq(courseGroups, shares)

SharerCodes(cell) ==
  SortStrings([k \in 1..Len(Sharers(cell)) |-> Sharers(cell)[k].group_code])

\* C11: row 1 of a block lists, sorted and comma-joined, the codes of all the
\* groups of the course that hold the identical session when there are
\* several, and only the selected group otherwise.
C11_SharedGroupsInRowOne ==
  Scheduled =>
    \A p \in BlockCells :
      LET cell == Table[p[1]][p[2]]
      IN  IF Len(Sharers(cell)) > 1
          THEN /\ cell.row1_course_info.group_numbers = SharerCodes(cell)
               /\ cell.row1_course_info.display_text =
                    Str(cell.row1_course_info.course_code.chars \o <<" ">>
                        \o Join(SharerCodes(cell), <<",">>))
          ELSE /\ Len(cell.row1_course_info.group_numbers) = 1
               /\ \E i \in 1..Len(Sel) :
                    /\ Sel[i].course_code = cell.row1_course_info.course_code
                    /\ Sel[i].group_number = cell.row1_course_info.group_numbers[1]

\* The containment conflicts of the table: a non-continuation block at slot
\* p[2] of day p[1] whose total_span reaches the non-continuation block at p[3].
Containments ==
  {p \in DaySet \X SlotIndexes \X SlotIndexes :
     /\ IsBlock(Table[p[1]][p[2]]) /\ ~Table[p[1]][p[2]].is_continuation
     /\ IsBlock(Table[p[1]][p[3]]) /\ ~Table[p[1]][p[3]].is_continuation
     /\ p[2] < p[3] /\ p[3] < p[2] + Table[p[1]][p[2]].total_span}

ConflictList == result.schedule.conflict_validation.conflicts

\* The record validateNoConflicts is to hold for the containment p.
ConflictOf(p) ==
  [day |-> p[1], time_slot |-> p[3],
   course1 |-> Table[p[1]][p[2]].row1_course_info.display_text,
   course2 |-> Table[p[1]][p[3]].row1_course_info.display_text]

\* C20: the recorded conflicts are exactly the containment conflicts of the
\* table, one record for each; total_conflicts counts them and has_conflicts
\* says whether there is any.
C20_ConflictsAreContainments ==
  Scheduled =>
    LET containments == Containments
        expected == {ConflictOf(p) : p \in containments}
        conflicts == ConflictList
    IN  /\ {conflicts[k] : k \in 1..Len(conflicts)} = expected
        /\ Len(conflicts) = Cardinality(containments)
        /\ result.schedule.conflict_validation.total_conflicts = Cardinality(containments)
        /\ result.schedule.conflict_validation.has_conflicts = (containments # {})

\* A table with a containment conflict next to blocks with continuation cells.
C20_Witness ==
  /\ Scheduled
  /\ Containments # {}
  /\ \E p \in BlockCells : Table[p[1]][p[2]].is_continuation

-----------------------------------------------------------------------------
(* Properties of the extractor *)

\* The call of parseExcelFile for request r has returned.
Parsed(r) == excelPc[r] \in {"parsed", "responded"}

Entries(r) == parseResult[r].schedule_entries

\* The blocks found for request r, each with its entries.
Blocks(r) == {consoleLog[r][k] : k \in 1..Len(consoleLog[r])}

\* The text of the cell at (row, col) of the grid of request r.
TextAt(r, row, col) == CellText(excelFile[r], row, col)

\* The column col exists in the row of the grid of request r.
HasColumn(r, row, col) == col < Len(excelFile[r][row + 1])

\* The two group codes of a cell in shared-group form, as written.
SharedPair(cs) == <<SubSeq(cs, Len(cs) - 4, Len(cs) - 3), SubSeq(cs, Len(cs) - 1, Len(cs))>>

SameSession(a, b) ==
  /\ a.day_of_week = b.day_of_week
  /\ a.start_time = b.start_time
  /\ a.end_time = b.end_time
  /\ a.session_type = b.session_type
  /\ a.span = b.span

\* The CourseGroup of the code and group of entry e holds the session of e.
GroupHolds(r, e) ==
  \E k \in 1..Len(parseResult[r].course_groups) :
    LET g == parseResult[r].course_groups[k]
    IN  /\ g.course_code = e.course_code
        /\ g.group_code = e.group_code
        /\ \E n \in 1..Len(g.sessions) : SameSession(g.sessions[n], e)

\* What every block of a cell in shared-group form gives, the order of
\* shared_groups aside.
SharedBlockGivesPair(r, b) ==
  LET pair == SharedPair(TextAt(r, b.startRow, b.startCol))
  IN  /\ Len(b.entries) = 2
      /\ b.entries[1].group_code = pair[1]
      /\ b.entries[2].group_code = pair[2]
      /\ SameSession(b.entries[1], b.entries[2])
      /\ b.entries[1].shared_groups = b.entries[2].shared_groups
      /\ {b.entries[1].shared_groups[k] : k \in 1..Len(b.entries[1].shared_groups)}
           = {pair[1], pair[2]}
      /\ GroupHolds(r, b.entries[1])
      /\ GroupHolds(r, b.entries[2])

IsSorted(codes) ==
  \A i, j \in 1..Len(codes) : i < j => codes[i] = codes[j] \/ Before(codes[i], codes[j])

\* C12: a block of a cell in shared-group form gives exactly two entries, one
\* for each group, with the same day, start, end, type and span, both in
\* their CourseGroups, and shared_groups lists both codes, sorted, on both.
C12_SharedCellGivesSortedPair ==
  \A r \in ParseRequests : Parsed(r) =>
    \A b \in Blocks(r) :
      SharedParts(TextAt(r, b.startRow, b.startCol)) # {} =>
        /\ SharedBlockGivesPair(r, b)
        /\ IsSorted(b.entries[1].shared_groups)

\* The cell ends the span of a block to its left: it is a bare course code
\* and is neither empty nor room nor instructor text.
EndsSpan(cs) ==
  /\ \E L \in 2..4, W \in 0..Len(cs) :
       /\ Len(cs) = L + W + 3
       /\ \A i \in 1..L : cs[i] \in UpperChars
       /\ \A i \in (L + 1)..(L + W) : cs[i] \in SpaceChars
       /\ \A i \in (L + W + 1)..Len(cs) : cs[i] \in DigitChars
  /\ ~\E i \in 1..(Len(cs) - 3) :
        cs[i] = "C" /\ \A k \in 1..3 : cs[i + k] \in DigitChars
  /\ ~\E i \in 1..(Len(cs) - 1) :
        cs[i] \in {"meem", "dal", "alef"} /\ cs[i + 1] = "."

\* The lookahead column at offset k extends the block at (row, col): it and
\* the columns before it exist and none of them ends the span.
Extends(r, row, col, k) ==
  \A j \in 1..k : HasColumn(r, row, col + j) /\ ~EndsSpan(TextAt(r, row, col + j))

\* The number of consecutive columns of the block at (row, col).
ColumnsOf(r, row, col) == 1 + Cardinality({k \in 1..3 : Extends(r, row, col, k)})

\* C13: the span of every entry is between 1 and 4 and is the number of
\* consecutive columns of its block, the starting column and the lookahead
\* columns that extend it; it is 1 when no lookahead column extends it.
C13_SpanIsColumnCount ==
  \A r \in ParseRequests : Parsed(r) =>
    /\ \A k \in 1..Len(Entries(r)) : Entries(r)[k].span \in 1..4
    /\ \A b \in Blocks(r) :
         /\ b.span = ColumnsOf(r, b.startRow, b.startCol)
         /\ ~Extends(r, b.startRow, b.startCol, 1) => b.span = 1
         /\ \A k \in 1..Len(b.entries) : b.entries[k].span = b.span

\* A block of span 4 with a fifth column that would extend it, and a block of
\* span 1.
C13_Witness ==
  \E r \in ParseRequests :
    /\ Parsed(r)
    /\ \E b \in Blocks(r) :
         /\ b.span = 4
         /\ HasColumn(r, b.startRow, b.startCol + 4)
         /\ ~EndsSpan(TextAt(r, b.startRow, b.startCol + 4))
    /\ \E b \in Blocks(r) : b.span = 1 /\ Len(b.entries) > 0

\* C14: two calls on the parser over the same grid return the same entries,
\* CourseGroups, span statistics and summary, and log the same blocks.
C14_SecondCallSameResult ==
  Parsed(1) /\ Parsed(2) /\ excelFile[1] = excelFile[2] =>
    /\ parseResult[1] = parseResult[2]
    /\ consoleLog[1] = consoleLog[2]

\* Both calls are over, on one grid that has blocks.
C14_Witness ==
  /\ Parsed(1) /\ Parsed(2)
  /\ excelFile[1] = excelFile[2]
  /\ Len(Entries(1)) > 1
  /\ processedBlocks # {}

\* The value and the log of a call on a parser of its own.
Alone(r) == parseExcelFile(excelFile[r], {}, {})

\* C15: whatever the order of the two requests, each gets the value a parser
\* of its own would give it.
C15_RequestsAreIsolated ==
  \A r \in ParseRequests : Parsed(r) =>
    LET alone == Alone(r)
    IN  parseResult[r] = alone.value /\ consoleLog[r] = alone.logged

\* Both requests are parsed, over different grids that both have blocks, the
\* second request first.
C15_Witness ==
  /\ excelPc[2] = "responded" /\ excelPc[1] = "parsed"
  /\ excelFile[1] # excelFile[2]
  /\ Len(Entries(1)) > 0 /\ Len(Entries(2)) > 0
  /\ processedBlocks # {}
  /\ \E b \in Blocks(2) : <<b.startRow, b.startCol>> \in processedBlocks

\* The slots a session occupies: [time_slot, time_slot + span).
SlotsOf(session) ==
  findTimeSlotIndex(session.start_time)
    ..(findTimeSlotIndex(session.start_time) + session.span - 1)

\* C16: no two sessions of a CourseGroup are on the same day in overlapping
\* slot ranges.
C16_NoOverlapInGroup ==
  \A r \in ParseRequests : Parsed(r) =>
    \A k \in 1..Len(parseResult[r].course_groups) :
      LET g == parseResult[r].course_groups[k]
      IN  \A i, j \in 1..Len(g.sessions) :
            i < j /\ g.sessions[i].day_of_week = g.sessions[j].day_of_week =>
              SlotsOf(g.sessions[i]) \cap SlotsOf(g.sessions[j]) = {}

\* The rows of the grid of request r that hold a day label in column 0.
LabelRows(r) ==
  {row \in 0..(Len(excelFile[r]) - 1) :
     \E d \in 1..Len(arabicDays) :
       \E i \in 1..Len(TextAt(r, row, 0)) : TextAt(r, row, 0)[i] = arabicDays[d].arabic}

\* The English name of the day label of a label row.
LabelOf(r, row) ==
  arabicDays[CHOOSE d \in 1..Len(arabicDays) :
               \E i \in 1..Len(TextAt(r, row, 0)) :
                 TextAt(r, row, 0)[i] = arabicDays[d].arabic].english

LabelsAbove(r, row) == {l \in LabelRows(r) : l < row}

\* The most recent label row above row.
LastLabelAbove(r, row) ==
  CHOOSE l \in LabelsAbove(r, row) : \A m \in LabelsAbove(r, row) : m <= l

AllEntriesOf(r) == UNION {{b.entries[k] : k \in 1..Len(b.entries)} : b \in Blocks(r)}

\* C17: every entry has the English name of the most recent day label above
\* the row of its block; no block starts in a label row or above the first
\* label.
C17_DayIsLastLabel ==
  \A r \in ParseRequests : Parsed(r) =>
    /\ {Entries(r)[k] : k \in 1..Len(Entries(r))} = AllEntriesOf(r)
    /\ \A b \in Blocks(r) :
         /\ b.startRow \notin LabelRows(r)
         /\ LabelsAbove(r, b.startRow) # {}
         /\ \A k \in 1..Len(b.entries) :
              b.entries[k].day_of_week
                = LabelOf(r, LastLabelAbove(r, b.startRow))

\* A grid with two labels of different days above a block, a course cell in a
\* label row, and a grid with a course row above its first label.
C17_Witness ==
  /\ Parsed(1) /\ Parsed(2)
  /\ \E b \in Blocks(1) :
       /\ Cardinality(LabelsAbove(1, b.startRow)) = 2
       /\ \E l \in LabelsAbove(1, b.startRow) :
            /\ LabelOf(1, l) # LabelOf(1, LastLabelAbove(1, b.startRow))
            /\ parseCourseCell(TextAt(1, LastLabelAbove(1, b.startRow), 2)).matched
  /\ Len(Entries(2)) > 0

\* DEPT NNN: letters, one space, exactly three digits.
IsNormalCode(cs) ==
  /\ Len(cs) >= 5
  /\ \A i \in 1..(Len(cs) - 4) : cs[i] \in UpperChars
  /\ cs[Len(cs) - 3] = " "
  /\ \A i \in (Len(cs) - 2)..Len(cs) : cs[i] \in DigitChars

\* C18: the course_code of every entry has the form DEPT NNN.
C18_CourseCodeIsNormal ==
  \A r \in ParseRequests : Parsed(r) =>
    \A k \in 1..Len(Entries(r)) : IsNormalCode(Entries(r)[k].course_code)

\* C19: no cell that parseCourseCell reads as the start of a block lies in
\* the columns a block to its left takes in with its span.
C19_SpanStopsAtBlockStart ==
  \A r \in ParseRequests : Parsed(r) =>
    \A b \in Blocks(r) :
      \A c \in (b.startCol + 1)..(b.startCol + b.span - 1) :
        ~parseCourseCell(TextAt(r, b.startRow, c)).matched

-----------------------------------------------------------------------------
(* The weekly table as a record of the writes of its sessions *)

\* The sessions buildWeeklyScheduleTable goes through, in its order: for each
\* selection in turn the sessions of its group in turn.
Writes ==
  Concat([i \in 1..Len(Sel) |->
            [k \in 1..Len(TheGroup(Sel[i]).sessions) |->
               [group |-> TheGroup(Sel[i]),
                session |-> TheGroup(Sel[i]).sessions[k]]]])

\* The write w resolves to the day and reaches slot s of the table.
Covers(w, day, s) ==
  /\ w.session.day_of_week = day
  /\ findTimeSlotIndex(w.session.start_time) # -1
  /\ findTimeSlotIndex(w.session.start_time) <= s
  /\ s < findTimeSlotIndex(w.session.start_time) + w.session.span

\* The cell the write w leaves at slot s.
CellOf(w, s) ==
  createCourseBlock(w.session, w.group, courseGroups) @@
  [is_continuation |-> s > findTimeSlotIndex(w.session.start_time),
   span_position |-> s - findTimeSlotIndex(w.session.start_time) + 1,
   total_span |-> w.session.span]

Greatest(S) == CHOOSE x \in S : \A y \in S : y <= x

\* C21: the table has exactly 7 days of exactly 8 cells; a session resolved
\* to (day, slot i) with span n writes its block to the slots i..i+n-1 of that
\* day that are inside the table, the first with is_continuation false and
\* span_position 1, the k-th following one with is_continuation true and
\* span_position k+1, all with total_span n; nothing is written past the
\* eighth slot or on another day.  So every cell holds what the last write
\* reaching it left, and a cell no write reaches is empty.
C21_TableHoldsTheWrites ==
  Scheduled =>
    LET writes == Writes
    IN  /\ DOMAIN Table = DaySet
        /\ Cardinality(DaySet) = 7
        /\ \A d \in DaySet :
             /\ DOMAIN Table[d] = 0..7
             /\ \A s \in 0..7 :
                  LET reaching == {j \in 1..Len(writes) : Covers(writes[j], d, s)}
                  IN  IF reaching = {} THEN Table[d][s] = Null
                      ELSE Table[d][s] = CellOf(writes[Greatest(reaching)], s)

\* A table with a block of span 2 that starts in the eighth slot and a block
\* whose third cell is written.
C21_Witness ==
  /\ Scheduled
  /\ IsBlock(Table["Wednesday"][7])
  /\ Table["Wednesday"][7].total_span = 2
  /\ ~Table["Wednesday"][7].is_continuation
  /\ \E d \in DaySet, s \in SlotIndexes :
       IsBlock(Table[d][s]) /\ Table[d][s].span_position = 3

-----------------------------------------------------------------------------
(* The forms of a course cell *)

\* The decompositions of a cell as DEPT, optional white space, NNN, gg, white
\* space and a room C with three or four digits: the lengths of DEPT, of the
\* first and of the second white space.
RoomParts(cs) ==
  {p \in (2..4) \X (0..Len(cs)) \X (1..Len(cs)) :
     /\ Len(cs) - (p[1] + p[2] + 5 + p[3] + 1) \in {3, 4}
     /\ \A i \in 1..p[1] : cs[i] \in UpperChars
     /\ \A i \in (p[1] + 1)..(p[1] + p[2]) : cs[i] \in SpaceChars
     /\ \A i \in (p[1] + p[2] + 1)..(p[1] + p[2] + 5) : cs[i] \in DigitChars
     /\ \A i \in (p[1] + p[2] + 6)..(p[1] + p[2] + 5 + p[3]) : cs[i] \in SpaceChars
     /\ cs[p[1] + p[2] + 5 + p[3] + 1] = "C"
     /\ \A i \in (p[1] + p[2] + 5 + p[3] + 2)..Len(cs) : cs[i] \in DigitChars}

\* The decompositions of a cell as DEPT, optional white space and NNN.
BareParts(cs) ==
  {p \in (2..4) \X (0..Len(cs)) :
     /\ Len(cs) = p[1] + p[2] + 3
     /\ \A i \in 1..p[1] : cs[i] \in UpperChars
     /\ \A i \in (p[1] + 1)..(p[1] + p[2]) : cs[i] \in SpaceChars
     /\ \A i \in (p[1] + p[2] + 1)..Len(cs) : cs[i] \in DigitChars}

\* DEPT NNN of a cell with the decomposition p.
CourseOf(cs, p) ==
  SubSeq(cs, 1, p[1]) \o <<" ">> \o SubSeq(cs, p[1] + p[2] + 1, p[1] + p[2] + 3)

\* Two to four capitals, optional white space and three digits lie
\* somewhere in the cell.
HasCodeInside(cs) ==
  \E i \in 1..Len(cs), L \in 2..4, W \in 0..Len(cs) :
    /\ i + L + W + 2 <= Len(cs)
    /\ \A k \in i..(i + L - 1) : cs[k] \in UpperChars
    /\ \A k \in (i + L)..(i + L + W - 1) : cs[k] \in SpaceChars
    /\ \A k \in (i + L + W)..(i + L + W + 2) : cs[k] \in DigitChars

\* The cell at (row, col) lies in the three rows and the columns of a block.
InBlock(r, row, col) ==
  \E b \in Blocks(r) :
    /\ row \in b.startRow..(b.startRow + 2)
    /\ col \in b.startCol..(b.startCol + b.span - 1)

\* The scan of request r read the cell at (row, col) as a possible start of a
\* block and found none: a slot column of a row under a day label, in no block.
ReadWithoutBlock(r, row, col) ==
  /\ row \in 0..(Len(excelFile[r]) - 1) /\ col \in 2..9
  /\ row \notin LabelRows(r) /\ LabelsAbove(r, row) # {}
  /\ HasColumn(r, row, col)
  /\ ~InBlock(r, row, col)

\* C22: the first matching pattern decides what a cell gives: the
\* shared-group form gives DEPT NNN with both groups, the form with a room
\* DEPT NNN with group gg, the bare form DEPT NNN with the last two digits of
\* NNN as group; the fallback pattern applies only to a cell none of these
\* matches; a cell that no pattern matches gives no block, and the parse
\* goes on without an error.
C22_FirstPatternDecides ==
  \A r \in ParseRequests : Parsed(r) =>
    \A b \in Blocks(r) :
      LET cs == TextAt(r, b.startRow, b.startCol)
      IN  /\ \A p \in SharedParts(cs) :
               b.courseCode = CourseOf(cs, p) /\ b.groups = SharedPair(cs)
          /\ \A p \in RoomParts(cs) :
               /\ b.courseCode = CourseOf(cs, p)
               /\ b.groups = <<SubSeq(cs, p[1] + p[2] + 4, p[1] + p[2] + 5)>>
          /\ \A p \in BareParts(cs) :
               /\ b.courseCode = CourseOf(cs, p)
               /\ b.groups = <<SubSeq(cs, Len(cs) - 1, Len(cs))>>
          /\ HasCodeInside(cs)

\* Blocks of the four kinds of cell in the two sheets, and a cell with text
\* that was read and gave no block.
C22_Witness ==
  /\ Parsed(1) /\ Parsed(2)
  /\ LET kinds ==
           {<<SharedParts(cs) # {}, RoomParts(cs) # {}, BareParts(cs) # {}>> :
              cs \in {TextAt(r, b.startRow, b.startCol) :
                        b \in Blocks(1), r \in {1}}
                     \cup {TextAt(r, b.startRow, b.startCol) :
                             b \in Blocks(2), r \in {2}}}
     IN  kinds = {<<TRUE, FALSE, FALSE>>, <<FALSE, TRUE, FALSE>>,
                  <<FALSE, FALSE, TRUE>>, <<FALSE, FALSE, FALSE>>}
  /\ \E r \in ParseRequests :
       \E row \in 0..(Len(excelFile[r]) - 1), col \in 2..9 :
         /\ ReadWithoutBlock(r, row, col)
         /\ TextAt(r, row, col) # <<>>
         /\ ~HasCodeInside(TextAt(r, row, col))

-----------------------------------------------------------------------------
(* The parse result as the catalog of the generator *)

\* The course_groups of a parse result as generatePersonalizedSchedule reads
\* them: the same objects, whose sessions have no course_code.
CatalogOf(course_groups) ==
  [k \in 1..Len(course_groups) |->
     [course_code |-> Str(course_groups[k].course_code),
      group_code |-> Str(course_groups[k].group_code),
      course_name |-> course_groups[k].course_name,
      sessions |->
        [n \in 1..Len(course_groups[k].sessions) |->
           course_groups[k].sessions[n] @@ [course_code |-> Undefined]]]]

\* The entries of the course and group of g, in their order.
EntriesOfGroup(entries, g) ==
  SelectSeq(entries, LAMBDA e : /\ e.course_code = g.course_code
                                /\ e.group_code = g.group_code)

\* The sessions of g are the entries es, one for one and in their order.
SessionsAre(g, es) ==
  /\ Len(g.sessions) = Len(es)
  /\ \A n \in 1..Len(es) :
       /\ SameSession(g.sessions[n], es[n])
       /\ g.sessions[n].location = es[n].location
       /\ g.sessions[n].instructor = es[n].instructor

\* C23: every entry is in exactly one CourseGroup, that of its course_code
\* and group_code; the sessions of a group are its entries in their order;
\* and the sum of the spans of the entries of a group is what
\* calculateGroupSpans computes for the group, shared sessions or not.
C23_GroupingKeepsSpans ==
  \A r \in ParseRequests : Parsed(r) =>
    LET groups == parseResult[r].course_groups
        entries == Entries(r)
        catalog == CatalogOf(groups)
    IN  /\ \A i, j \in 1..Len(groups) :
             (/\ groups[i].course_code = groups[j].course_code
              /\ groups[i].group_code = groups[j].group_code) => i = j
        /\ \A k \in 1..Len(entries) :
             \E i \in 1..Len(groups) :
               /\ groups[i].course_code = entries[k].course_code
               /\ groups[i].group_code = entries[k].group_code
        /\ \A i \in 1..Len(groups) :
             /\ SessionsAre(groups[i], EntriesOfGroup(entries, groups[i]))
             /\ SpanTotal(EntriesOfGroup(entries, groups[i]))
                  = calculateGroupSpans(catalog[i], catalog)

\* A group of two sessions of different spans, one of them from a
\* shared-group cell, next to a group whose session is its own.
C23_Witness ==
  /\ Parsed(1)
  /\ \E i, j \in 1..Len(parseResult[1].course_groups) :
       LET g == parseResult[1].course_groups[i]
           es == EntriesOfGroup(Entries(1), g)
       IN  /\ Len(es) >= 2
           /\ \E m, n \in 1..Len(es) :
                /\ es[m].span # es[n].span
                /\ Len(es[m].shared_groups) > 0
           /\ \A n \in 1..Len(EntriesOfGroup(Entries(1), parseResult[1].course_groups[j])) :
                EntriesOfGroup(Entries(1), parseResult[1].course_groups[j])[n].shared_groups = <<>>

-----------------------------------------------------------------------------
(* Sessions the table has no place for *)

\* The start times of the eight slots.
CanonicalStarts ==
  {"9.00", "9.45", "10.40", "11.25", "12.20", "1.05", "2.00", "2.45"}

\* The session has no day or no slot in the table.
Unplaceable(session) ==
  session.day_of_week \notin DaySet \/ session.start_time \notin CanonicalStarts

\* The cell is one the write w made.
MadeBy(cell, w) ==
  /\ IsBlock(cell)
  /\ cell.row1_course_info.course_code = w.group.course_code
  /\ cell.session_metadata.day_of_week = w.session.day_of_week
  /\ cell.session_metadata.start_time = w.session.start_time
  /\ cell.session_metadata.end_time = w.session.end_time

\* C24: a session whose day is none of the 7 days or whose start time is
\* none of the 8 start times is skipped without an error: once the spans are
\* validated the call succeeds, no cell of the table is made by such a
\* session, and every other session of the same and of the other selections
\* is placed (its cells are blocks, and its own where no later session
\* reaches them).
C24_UnplaceableSessionIsSkipped ==
  (Returned /\ spanValidation.isValid) =>
    /\ result.success
    /\ LET writes == Writes
       IN  \A j \in 1..Len(writes) :
             IF Unplaceable(writes[j].session)
             THEN \A d \in DaySet, s \in SlotIndexes : ~MadeBy(Table[d][s], writes[j])
             ELSE \A s \in SlotIndexes :
                    Covers(writes[j], writes[j].session.day_of_week, s) =>
                      /\ IsBlock(Table[writes[j].session.day_of_week][s])
                      /\ (\A k \in (j + 1)..Len(writes) :
                            ~Covers(writes[k], writes[j].session.day_of_week, s))
                           => MadeBy(Table[writes[j].session.day_of_week][s], writes[j])

\* A table of two selections, one with a session of an unknown day, a session
\* of an unknown start time and a session that is placed.
C24_Witness ==
  /\ Scheduled
  /\ Len(Sel) = 2
  /\ Sel[1].course_code # Sel[2].course_code
  /\ \E i, j, k \in 1..Len(Writes) :
       /\ Writes[i].session.day_of_week \notin DaySet
       /\ Writes[j].session.start_time \notin CanonicalStarts
       /\ Writes[j].session.day_of_week \in DaySet
       /\ Writes[k].group = Writes[i].group
       /\ ~Unplaceable(Writes[k].session)
       /\ MadeBy(Table[Writes[k].session.day_of_week]
                      [findTimeSlotIndex(Writes[k].session.start_time)], Writes[k])
  /\ \E d \in DaySet, s \in SlotIndexes :
       /\ IsBlock(Table[d][s])
       /\ Table[d][s].row1_course_info.course_code = Sel[2].course_code
  /\ \E d \in DaySet, s \in SlotIndexes :
       /\ IsBlock(Table[d][s])
       /\ Table[d][s].row1_course_info.course_code = Sel[1].course_code

-----------------------------------------------------------------------------
(* The fixed tables of the two services *)

\* C25: the tables of the extractor and of the generator agree: the
\* start_time of every entry is a key of the generator's time map, with
\* index time_slot - 1, and its day_of_week is one of the generator's 7 days;
\* so the generator has a place for every session of the parse result.
C25_TablesAgree ==
  \A r \in ParseRequests : Parsed(r) =>
    /\ \A k \in 1..Len(Entries(r)) :
         /\ Entries(r)[k].time_slot \in 1..8
         /\ findTimeSlotIndex(Entries(r)[k].start_time) = Entries(r)[k].time_slot - 1
         /\ dayIndexOf(Entries(r)[k].day_of_week) # -1
    /\ \A i \in 1..Len(parseResult[r].course_groups) :
         \A n \in 1..Len(parseResult[r].course_groups[i].sessions) :
           ~Unplaceable(CatalogOf(parseResult[r].course_groups)[i].sessions[n])

\* Entries of two days in the two sheets, in the first slot, in the third
\* and in a later one.
C25_Witness ==
  /\ Parsed(1) /\ Parsed(2)
  /\ \E k \in 1..Len(Entries(1)) :
       /\ Entries(1)[k].time_slot >= 6
       /\ \E i, j \in 1..Len(Entries(2)) :
            /\ Entries(2)[i].day_of_week # Entries(1)[k].day_of_week
            /\ Entries(2)[i].time_slot = 1
            /\ Entries(2)[j].time_slot = 3

-----------------------------------------------------------------------------
(* The catalog across the call *)

-----------------------------------------------------------------------------
(* Continuation cells *)

\* The cell at slot s of day d continues the block that starts at slot t.
StartsAt(d, s, t) ==
  /\ t \in SlotIndexes
  /\ IsBlock(Table[d][t])
  /\ ~Table[d][t].is_continuation
  /\ Table[d][t].row1_course_info = Table[d][s].row1_course_info
  /\ Table[d][t].session_metadata = Table[d][s].session_metadata
  /\ Table[d][t].total_span = Table[d][s].total_span

\* C27: every continuation cell at slot s with span_position p has the
\* starting cell of its block (same course, groups and session) at slot
\* s - p + 1 of the same day.
C27_ContinuationHasItsStart ==
  Scheduled =>
    \A d \in DaySet, s \in SlotIndexes :
      (IsBlock(Table[d][s]) /\ Table[d][s].is_continuation) =>
        StartsAt(d, s, s - Table[d][s].span_position + 1)

-----------------------------------------------------------------------------
(* The order of the request *)

Reverse(s) == [k \in 1..Len(s) |-> s[Len(s) + 1 - k]]

\* The call on the same catalog of the request that lists the desired
\* courses in the opposite order.
ReversedCall ==
  generatePersonalizedSchedule(courseGroups, Request(Arr(Reverse(Items))))

\* C28: the conflict validation does not depend on the order of the desired
\* courses: the request that lists the same resolved selections in the
\* opposite order gets the same has_conflicts and total_conflicts.
C28_ConflictsIgnoreOrder ==
  (Scheduled /\ ReversedCall.courseSelection = Arr(Reverse(Sel))) =>
    /\ ReversedCall.result.success
    /\ ReversedCall.result.schedule.conflict_validation.has_conflicts
         = result.schedule.conflict_validation.has_conflicts
    /\ ReversedCall.result.schedule.conflict_validation.total_conflicts
         = result.schedule.conflict_validation.total_conflicts

-----------------------------------------------------------------------------
(* The total of the spans *)

\* No two selections name the same course and group.
DistinctSelections ==
  \A i, j \in 1..Len(Sel) :
    (/\ Sel[i].course_code = Sel[j].course_code
     /\ Sel[i].group_number = Sel[j].group_number) => i = j

\* The sum of actual_spans over the course_span_summary of the validation.
SummaryTotal ==
  SumSeq([k \in 1..Len(spanValidation.course_span_summary) |->
            spanValidation.course_span_summary[k].actual_spans])

\* All sessions of the selection have a day and a slot in the table.
AllPlaceable == \A j \in 1..Len(Writes) : ~Unplaceable(Writes[j].session)

\* C29: for a successful request with distinct selections (and sessions the
\* table has a place for), generation_metadata.total_spans is the sum of
\* actual_spans over span_validation.course_span_summary.
C29_TotalSpansIsSummaryTotal ==
  (Scheduled /\ DistinctSelections /\ AllPlaceable) =>
    result.schedule.generation_metadata.total_spans = SummaryTotal

-----------------------------------------------------------------------------
(* The columns of an entry *)

\* C30: every entry lies inside the eight slot columns: its time_slot is
\* between 1 and 8 and its last column, time_slot + span - 1, is at most 8.
C30_EntryInsideTheSlots ==
  \A r \in ParseRequests : Parsed(r) =>
    \A k \in 1..Len(Entries(r)) :
      /\ Entries(r)[k].time_slot \in 1..8
      /\ Entries(r)[k].time_slot + Entries(r)[k].span - 1 <= 8

====
